---- MODULE Spec2Model ----
(***************************************************************************)
(* BrowserBot: the progress tracker (StateManager) and the agent loop      *)
(* (BrowserBot.run) that drives it.                                        *)
(*                                                                         *)
(* The specifications share the tracker operators:                         *)
(*   SpecTracker  a StateManager driven by arbitrary calls of its methods  *)
(*   Spec         one BrowserBot.run on a new agent; FairSpec and          *)
(*                FairSpecUser add what the run can rely on to go on       *)
(*   SpecRuns     run() called again and again on the same agent           *)
(*   SpecTurn     the run of Spec with each provider stream consumed chunk *)
(*                by chunk                                                 *)
(***************************************************************************)
EXTENDS Integers, Sequences, FiniteSets, TLC

VARIABLES
    state,                  \* StateManager.state : AgentState
    maxConsecutiveFailures, \* StateManager.maxConsecutiveFailures (readonly)
    \* ---- history of the calls made on a tracker (SpecTracker)
    lastOp,                 \* name of the last method called
    nCalls,                 \* number of mutator calls since construction
    nFail,                  \* recordFailure calls since construction/reset
    nSucc,                  \* recordSuccess calls since construction/reset
    streak,                 \* recordFailure calls since the last recordSuccess
    maxStreak,              \* longest such streak since construction/reset
    marked,                 \* markComplete or markFailed called since construction/reset
    \* ---- BrowserBot.run
    pc,                     \* position of the run() coroutine
    options,                \* the RunOptions of the current run
    isMediaTask,            \* BrowserBot.run local: task matches the media regex
    llmResponse,            \* BrowserBot.run local: the turn's accumulated response
    result,                 \* the TaskResult run() resolved with, or NoResult
    \* ---- history of the current run
    iters,                  \* iterations started in the current run
    last,                   \* how the last finished turn ended
    sawRaise,               \* some turn of the current run raised
    sawCont,                \* some turn of the current run ended without a verdict
    lastStepPrompt,         \* the prompt of the current iteration has isLastStep
    streamsOpened,          \* provider streams opened since the run started,
                            \* counted in the runs given a maxSteps option
    \* ---- BrowserBot.streamLLMDecision, the last call of it
    stream,                 \* the chunks the provider's stream holds
    consumed,               \* number of chunks the for-await loop has taken
    accumulatedResponse,    \* local: the text accumulated so far
    toolsUsed,              \* local: the tool names recorded so far
    openStreams,            \* provider streams opened and not yet ended or raised
    \* ---- ResponseTrimmer, PlaywrightClient.executeTool and the CLI
    compress,               \* a call of trimSnapshot and a second one on its result
    toolCall,               \* a call of PlaywrightClient.executeTool
    proc,                   \* the process of the command line program
    \* ---- the clients' lifecycle, the media wait and the message history
    clients,                \* a PlaywrightClient, alone or inside a NeuroLinkClient
    mediaWait,              \* a call of PlaywrightClient.handleMediaWait
    history                 \* a ConversationHistory

trackerVars == <<state, maxConsecutiveFailures>>
callVars    == <<lastOp, nCalls, nFail, nSucc, streak, maxStreak, marked>>
runVars     == <<pc, options, isMediaTask, llmResponse, result>>
histVars    == <<iters, last, sawRaise, sawCont, lastStepPrompt, streamsOpened>>
turnVars    == <<stream, consumed, accumulatedResponse, toolsUsed, openStreams>>
envVars     == <<compress, toolCall, proc, clients, mediaWait, history>>
vars        == <<trackerVars, callVars, runVars, histVars, turnVars, envVars>>

(***************************************************************************)
(* Bounds of the model                                                     *)
(***************************************************************************)
MaxStepsCfg  == 4   \* largest maxSteps given to a StateManager / run()
MaxThreshold == 4   \* largest failure threshold given to a StateManager
MaxFailOpt   == 4   \* largest options.maxFailures given to run()
MaxCalls     == 7   \* mutator calls made on a tracker in SpecTracker

(***************************************************************************)
(* Program constants                                                       *)
(***************************************************************************)
DefaultMaxConsecutiveFailures == 3     \* config.maxConsecutiveFailures ?? 3
DefaultMaxSteps               == 100   \* config.maxSteps ?? 100
DefaultMaxFailures            == 3     \* options?.maxFailures ?? 3

\* an optional number: Undef (the property is absent) or Some(n)
Undef   == <<>>
Some(n) == <<n>>

\* a ?? b
Coalesce(a, b) == IF a = Undef THEN b ELSE a[1]

(***************************************************************************)
(* StateManager                                                            *)
(***************************************************************************)
\* new StateManager(config): the pair <<state, maxConsecutiveFailures>>
StateManager(config) ==
    [ state |-> [ currentStep         |-> 0,
                  maxSteps            |-> Coalesce(config.maxSteps, DefaultMaxSteps),
                  consecutiveFailures |-> 0,
                  isDone              |-> FALSE,
                  shouldStop          |-> FALSE ],
      maxConsecutiveFailures |->
          Coalesce(config.maxConsecutiveFailures, DefaultMaxConsecutiveFailures) ]

nextStep_twice(s) == [s EXCEPT !.currentStep = @ + 2]

nextStep_stuck(s) == s

nextStep(s) == [s EXCEPT !.currentStep = @ + 1]

recordSuccess_clearsStop(s) ==
    [s EXCEPT !.consecutiveFailures = 0, !.shouldStop = FALSE]

recordSuccess(s) == [s EXCEPT !.consecutiveFailures = 0]

recordFailure_gt(s, threshold) ==
    LET n == s.consecutiveFailures + 1
    IN  [s EXCEPT !.consecutiveFailures = n,
                  !.shouldStop = IF n > threshold THEN TRUE ELSE @]

recordFailure_marksFailed(s, threshold) ==
    [s EXCEPT !.consecutiveFailures = @ + 1, !.shouldStop = TRUE]

recordFailure(s, threshold) ==
    LET n == s.consecutiveFailures + 1
    IN  [s EXCEPT !.consecutiveFailures = n,
                  !.shouldStop = IF n >= threshold THEN TRUE ELSE @]

markComplete_noStop(s) == [s EXCEPT !.isDone = TRUE]

markComplete(s) == [s EXCEPT !.isDone = TRUE, !.shouldStop = TRUE]

markFailed_noStop(s) == s

markFailed_clearsDone(s) == [s EXCEPT !.shouldStop = TRUE, !.isDone = FALSE]

markFailed(s) == [s EXCEPT !.shouldStop = TRUE]

shouldContinue_ignoresStop(s) ==
    IF s.isDone THEN FALSE
    ELSE IF s.currentStep >= s.maxSteps THEN FALSE
    ELSE TRUE

shouldContinue_offByOne(s) ==
    IF s.shouldStop THEN FALSE
    ELSE IF s.isDone THEN FALSE
    ELSE IF s.currentStep > s.maxSteps THEN FALSE
    ELSE TRUE

shouldContinue(s) ==
    IF s.shouldStop THEN FALSE
    ELSE IF s.isDone THEN FALSE
    ELSE IF s.currentStep >= s.maxSteps THEN FALSE
    ELSE TRUE

isLastStep_exact(s) == s.currentStep = s.maxSteps - 1

isLastStep(s) == s.currentStep >= s.maxSteps - 1

getExitReason_stopFirst(s, threshold) ==
    IF s.isDone THEN "success"
    ELSE IF s.shouldStop THEN "error"
    ELSE IF s.consecutiveFailures >= threshold THEN "max_failures"
    ELSE IF s.currentStep >= s.maxSteps THEN "max_steps"
    ELSE "success"

getExitReason_stepsFirst(s, threshold) ==
    IF s.currentStep >= s.maxSteps THEN "max_steps"
    ELSE IF s.isDone THEN "success"
    ELSE IF s.consecutiveFailures >= threshold THEN "max_failures"
    ELSE IF s.shouldStop THEN "error"
    ELSE "success"

getExitReason(s, threshold) ==
    IF s.isDone THEN "success"
    ELSE IF s.consecutiveFailures >= threshold THEN "max_failures"
    ELSE IF s.currentStep >= s.maxSteps THEN "max_steps"
    ELSE IF s.shouldStop THEN "error"
    ELSE "success"

reset(s) ==
    [ currentStep         |-> 0,
      maxSteps            |-> s.maxSteps,
      consecutiveFailures |-> 0,
      isDone              |-> FALSE,
      shouldStop          |-> FALSE ]

(***************************************************************************)
(* Strings are sequences of one-character strings, so that toLowerCase and *)
(* includes are computed as the code computes them.                        *)
(***************************************************************************)
\* the lower-case form of every letter that has one
LowerOf ==
    [c \in {"A","B","C","D","E","F","G","H","I","J","K","L","M",
            "N","O","P","Q","R","S","T","U","V","W","X","Y","Z"} |->
        CASE c = "A" -> "a" [] c = "B" -> "b" [] c = "C" -> "c" [] c = "D" -> "d"
          [] c = "E" -> "e" [] c = "F" -> "f" [] c = "G" -> "g" [] c = "H" -> "h"
          [] c = "I" -> "i" [] c = "J" -> "j" [] c = "K" -> "k" [] c = "L" -> "l"
          [] c = "M" -> "m" [] c = "N" -> "n" [] c = "O" -> "o" [] c = "P" -> "p"
          [] c = "Q" -> "q" [] c = "R" -> "r" [] c = "S" -> "s" [] c = "T" -> "t"
          [] c = "U" -> "u" [] c = "V" -> "v" [] c = "W" -> "w" [] c = "X" -> "x"
          [] c = "Y" -> "y" [] c = "Z" -> "z"]

\* String.prototype.toLowerCase
toLowerCase(str) ==
    [i \in 1..Len(str) |->
        IF str[i] \in DOMAIN LowerOf THEN LowerOf[str[i]] ELSE str[i]]

\* String.prototype.includes
includes(str, sub) ==
    \E i \in 0..(Len(str) - Len(sub)) : SubSeq(str, i + 1, i + Len(sub)) = sub

CompleteSignals ==
    { <<"t", "a", "s", "k", " ", "c", "o", "m", "p", "l", "e", "t", "e">>,
      <<"s", "u", "c", "c", "e", "s", "s", "f", "u", "l", "l", "y", " ", "c", "o", "m", "p", "l", "e", "t", "e", "d">>,
      <<"t", "a", "s", "k", " ", "f", "i", "n", "i", "s", "h", "e", "d">> }

FailedSignals ==
    { <<"t", "a", "s", "k", " ", "f", "a", "i", "l", "e", "d">>,
      <<"c", "a", "n", "n", "o", "t", " ", "c", "o", "m", "p", "l", "e", "t", "e">>,
      <<"u", "n", "a", "b", "l", "e", " ", "t", "o", " ", "p", "r", "o", "c", "e", "e", "d">> }

parseResponse_caseSensitive(response) ==
    LET lowerResponse == response
    IN  [ isComplete |-> \E sig \in CompleteSignals : includes(lowerResponse, sig),
          isFailed   |-> \E sig \in FailedSignals : includes(lowerResponse, sig) ]

\* PromptBuilder.parseResponse: the two flags (the extracted sections are
\* not read by the agent loop)
parseResponse(response) ==
    LET lowerResponse == toLowerCase(response)
    IN  [ isComplete |-> \E sig \in CompleteSignals : includes(lowerResponse, sig),
          isFailed   |-> \E sig \in FailedSignals : includes(lowerResponse, sig) ]

(***************************************************************************)
(* Sample responses a provider stream can accumulate to                    *)
(***************************************************************************)
\* ""
R_Empty ==
    <<>>

\* "still working"
R_Working ==
    <<"s", "t", "i", "l", "l", " ", "w", "o", "r", "k", "i", "n", "g">>

\* "TASK COMPLETE: done"
R_Complete ==
    <<"T", "A", "S", "K", " ", "C", "O", "M", "P", "L", "E", "T", "E", ":", " ", "d", "o", "n", "e">>

\* "Task Finished"
R_Finished ==
    <<"T", "a", "s", "k", " ", "F", "i", "n", "i", "s", "h", "e", "d">>

\* "task is complete"
R_NearMiss ==
    <<"t", "a", "s", "k", " ", "i", "s", " ", "c", "o", "m", "p", "l", "e", "t", "e">>

\* "task failed: stuck"
R_Failed ==
    <<"t", "a", "s", "k", " ", "f", "a", "i", "l", "e", "d", ":", " ", "s", "t", "u", "c", "k">>

\* "Unable to proceed"
R_Unable ==
    <<"U", "n", "a", "b", "l", "e", " ", "t", "o", " ", "p", "r", "o", "c", "e", "e", "d">>

\* "task failed, TASK COMPLETE"
R_Both ==
    <<"t", "a", "s", "k", " ", "f", "a", "i", "l", "e", "d", ",", " ", "T", "A", "S", "K", " ", "C", "O", "M", "P", "L", "E", "T", "E">>

Responses ==
    { R_Empty, R_Working, R_Complete, R_Finished, R_NearMiss, R_Failed, R_Unable, R_Both }

(***************************************************************************)
(* SpecTracker: one StateManager, constructed with any configuration and   *)
(* then driven by any sequence of calls of its mutators.                   *)
(***************************************************************************)
StepsCfgs     == {Undef} \cup {Some(n) : n \in 1..MaxStepsCfg}
ThresholdCfgs == {Undef} \cup {Some(n) : n \in 1..MaxThreshold}

NoResult  == [kind |-> "none"]
NoOptions == [maxSteps |-> Undef, maxFailures |-> Undef]

\* the variables of BrowserBot.run while no run is in progress
RunAtRest ==
    /\ pc = "idle" /\ options = NoOptions /\ isMediaTask = FALSE
    /\ llmResponse = <<>> /\ result = NoResult
    /\ iters = 0 /\ last = "none"
    /\ sawRaise = FALSE /\ sawCont = FALSE /\ lastStepPrompt = FALSE
    /\ streamsOpened = 0
    /\ stream = <<>> /\ consumed = 0
    /\ accumulatedResponse = <<>> /\ toolsUsed = <<>>
    /\ openStreams = 0

\* the compressor, the tool client and the command line program before
\* anything is asked of them
Idle == [phase |-> "idle"]

EnvAtRest ==
    /\ compress = Idle /\ toolCall = Idle /\ proc = Idle
    /\ clients = Idle /\ mediaWait = Idle /\ history = Idle

CallsAtRest ==
    /\ lastOp = "constructor" /\ nCalls = 0 /\ nFail = 0 /\ nSucc = 0
    /\ streak = 0 /\ maxStreak = 0 /\ marked = FALSE

Max(a, b) == IF a >= b THEN a ELSE b

InitTracker ==
    /\ \E ms \in StepsCfgs, mf \in ThresholdCfgs :
         LET sm == StateManager([maxSteps |-> ms, maxConsecutiveFailures |-> mf])
         IN  /\ state = sm.state
             /\ maxConsecutiveFailures = sm.maxConsecutiveFailures
    /\ CallsAtRest
    /\ RunAtRest
    /\ EnvAtRest

\* bookkeeping common to every call
Called(op) ==
    /\ nCalls < MaxCalls
    /\ nCalls' = nCalls + 1
    /\ lastOp' = op
    /\ UNCHANGED <<envVars, maxConsecutiveFailures, runVars, histVars, turnVars>>

CallNextStep ==
    /\ Called("nextStep")
    /\ state' = nextStep(state)
    /\ UNCHANGED <<nFail, nSucc, streak, maxStreak, marked>>

CallRecordSuccess ==
    /\ Called("recordSuccess")
    /\ state' = recordSuccess(state)
    /\ nSucc' = nSucc + 1
    /\ streak' = 0
    /\ UNCHANGED <<nFail, maxStreak, marked>>

CallRecordFailure ==
    /\ Called("recordFailure")
    /\ state' = recordFailure(state, maxConsecutiveFailures)
    /\ nFail' = nFail + 1
    /\ streak' = streak + 1
    /\ maxStreak' = Max(maxStreak, streak + 1)
    /\ UNCHANGED <<nSucc, marked>>

CallMarkComplete ==
    /\ Called("markComplete")
    /\ state' = markComplete(state)
    /\ marked' = TRUE
    /\ UNCHANGED <<nFail, nSucc, streak, maxStreak>>

CallMarkFailed ==
    /\ Called("markFailed")
    /\ state' = markFailed(state)
    /\ marked' = TRUE
    /\ UNCHANGED <<nFail, nSucc, streak, maxStreak>>

CallReset ==
    /\ Called("reset")
    /\ state' = reset(state)
    /\ nFail' = 0 /\ nSucc' = 0 /\ streak' = 0 /\ maxStreak' = 0
    /\ marked' = FALSE

NextTracker ==
    \/ CallNextStep
    \/ CallRecordSuccess
    \/ CallRecordFailure
    \/ CallMarkComplete
    \/ CallMarkFailed
    \/ CallReset

SpecTracker == InitTracker /\ [][NextTracker]_vars

(***************************************************************************)
(* One call of BrowserBot.run on a new agent.  new BrowserBot() constructs *)
(* a default StateManager; run() then goes through the positions           *)
(*   while      the loop test (line 69)                                    *)
(*   build      inside the try, about to build the prompt (line 80)        *)
(*   open       awaiting neurolink.stream (line 204)                       *)
(*   consume    consuming the stream's chunks (lines 216-241)              *)
(*   evaluate   the stream ended, the response is evaluated (line 86)      *)
(*   ended      the loop was left (line 132)                               *)
(*   snapshot   awaiting getCurrentUrl (line 139)                          *)
(*   waitEnter  awaiting the user's Enter (lines 156-161)                  *)
(*   returned   run() resolved with the TaskResult                         *)
(*   rejected   run() rejected with an exception                           *)
(***************************************************************************)
StepsOpts == {Undef} \cup {Some(n) : n \in 1..MaxStepsCfg}
FailOpts  == {Undef} \cup {Some(n) : n \in 1..MaxFailOpt}

\* if (options?.maxSteps): undefined is falsy, and so is 0
Truthy(opt) == opt # Undef /\ opt # Some(0)

\* the positions inside try { ... } of run()
TryBlock_promptOutside == {"open", "consume", "evaluate"}

TryBlock == {"build", "open", "consume", "evaluate"}

\* the positions of an iteration at which an exception can be raised
RaisePoints == {"build", "open", "consume", "evaluate"}

forAwaitLeft_leaks(open) == open

\* for await (const chunk of streamResponse.stream) is left, at the end of
\* the stream or by an exception: the stream is over
forAwaitLeft(open) == open - 1

evaluateResponse_failedFirst(response) ==
    LET parsed == parseResponse(response)
    IN  IF parsed.isFailed
        THEN [isComplete |-> FALSE, isFailed |-> TRUE,
              message |-> "Task failed or cannot be completed"]
        ELSE IF parsed.isComplete
        THEN [isComplete |-> TRUE, isFailed |-> FALSE,
              message |-> "Task completed successfully"]
        ELSE [isComplete |-> FALSE, isFailed |-> FALSE,
              message |-> "Continuing..."]

\* BrowserBot.evaluateResponse
evaluateResponse(response) ==
    LET parsed == parseResponse(response)
    IN  IF parsed.isComplete
        THEN [isComplete |-> TRUE, isFailed |-> FALSE,
              message |-> "Task completed successfully"]
        ELSE IF parsed.isFailed
        THEN [isComplete |-> FALSE, isFailed |-> TRUE,
              message |-> "Task failed or cannot be completed"]
        ELSE [isComplete |-> FALSE, isFailed |-> FALSE,
              message |-> "Continuing..."]

\* what a response says, for the history of the run: which of the
\* completion and failure signals it contains
Signals(response) ==
    LET hasComplete == \E sig \in CompleteSignals :
                           includes(toLowerCase(response), sig)
        hasFailed   == \E sig \in FailedSignals :
                           includes(toLowerCase(response), sig)
    IN  IF hasComplete /\ hasFailed THEN "both"
        ELSE IF hasComplete THEN "complete"
        ELSE IF hasFailed THEN "failed"
        ELSE "continue"

\* the break test of the catch branch
tooManyFailures(s, opts) ==
    s.consecutiveFailures >= Coalesce(opts.maxFailures, DefaultMaxFailures)

\* the URLs a browser_snapshot can report: "" stands for a snapshot
\* without a URL line
CurrentUrls ==
    { "", "https://www.youtube.com/watch?v=1", "https://www.youtube.com/",
      "https://vimeo.com/1", "https://open.spotify.com/track/1",
      "https://soundcloud.com/a", "https://example.com/" }

\* currentUrl.includes(...) of the four media sites
isOnMediaSite(url) ==
    url \in { "https://www.youtube.com/watch?v=1", "https://vimeo.com/1",
              "https://open.spotify.com/track/1", "https://soundcloud.com/a" }

\* how the browser_snapshot call of getCurrentUrl can end
SnapshotCalls ==
    {[ok |-> FALSE]} \cup {[ok |-> TRUE, url |-> u] : u \in CurrentUrls}

\* BrowserBot.getCurrentUrl: the URL of the snapshot; the catch turns a
\* failed call into ""
getCurrentUrl(call) == IF call.ok THEN call.url ELSE ""

\* BrowserBot.buildResult; conversation memory is disabled, so the
\* session lookup finds nothing and conversationHistory stays empty
buildResult(s, threshold) ==
    LET exitReason == getExitReason(s, threshold)
    IN  [ kind                |-> "result",
          success             |-> s.isDone,
          message             |-> IF exitReason = "success"
                                  THEN "Task completed successfully"
                                  ELSE "Task stopped",
          stepsTaken          |-> s.currentStep,
          conversationHistory |-> <<>>,
          exitReason          |-> exitReason ]

Init ==
    /\ LET sm == StateManager([maxSteps |-> Undef, maxConsecutiveFailures |-> Undef])
       IN  /\ state = sm.state
           /\ maxConsecutiveFailures = sm.maxConsecutiveFailures
    /\ CallsAtRest
    /\ RunAtRest
    /\ EnvAtRest

\* the body of run(task, options) up to the loop: lines 46-67
StartRun(ms, mf, media) ==
    /\ options' = [maxSteps |-> ms, maxFailures |-> mf]
    /\ isMediaTask' = media
    /\ IF Truthy(ms)
       THEN LET sm == StateManager([maxSteps |-> ms,
                                    maxConsecutiveFailures |-> Undef])
            IN  /\ state' = sm.state
                /\ maxConsecutiveFailures' = sm.maxConsecutiveFailures
       ELSE UNCHANGED trackerVars
    /\ pc' = "while"
    /\ llmResponse' = <<>>
    /\ result' = NoResult
    /\ iters' = 0 /\ last' = "none" /\ sawRaise' = FALSE /\ sawCont' = FALSE
    /\ lastStepPrompt' = FALSE
    /\ streamsOpened' = 0
    /\ UNCHANGED <<callVars, turnVars>>

\* run(task, options) is called on the new agent
Run ==
    /\ pc = "idle"
    /\ \E ms \in StepsOpts, mf \in FailOpts, media \in BOOLEAN :
         StartRun(ms, mf, media)
    /\ UNCHANGED envVars

\* while (shouldContinue()) { nextStep(); ...: lines 69-76
BeginIteration ==
    /\ pc = "while"
    /\ shouldContinue(state)
    /\ state' = nextStep(state)
    /\ pc' = "build"
    /\ iters' = iters + 1
    /\ lastStepPrompt' = FALSE
    /\ UNCHANGED <<envVars, maxConsecutiveFailures, callVars, options, isMediaTask,
                   llmResponse, result, last, sawRaise, sawCont, streamsOpened,
                   turnVars>>

\* the loop test fails: line 69
ExitLoop ==
    /\ pc = "while"
    /\ ~shouldContinue(state)
    /\ pc' = "ended"
    /\ UNCHANGED <<envVars, trackerVars, callVars, options, isMediaTask, llmResponse,
                   result, histVars, turnVars>>

\* buildPrompt returns: line 80; the prompt is built with
\* isLastStep: this.stateManager.isLastStep() (line 189)
BuildPrompt ==
    /\ pc = "build"
    /\ pc' = "open"
    /\ lastStepPrompt' = isLastStep(state)
    /\ UNCHANGED <<envVars, trackerVars, callVars, options, isMediaTask, llmResponse,
                   result, iters, last, sawRaise, sawCont, streamsOpened, turnVars>>

\* the count of streams opened, kept for the runs given a maxSteps option
\* (the others run up to the default maxSteps iterations)
countStream(n, opts) == IF opts.maxSteps # Undef THEN n + 1 ELSE n

\* neurolink.stream resolves with a stream: line 204
OpenStream ==
    /\ pc = "open"
    /\ pc' = "consume"
    /\ openStreams' = openStreams + 1
    /\ streamsOpened' = countStream(streamsOpened, options)
    /\ UNCHANGED <<envVars, trackerVars, callVars, options, isMediaTask, llmResponse,
                   result, iters, last, sawRaise, sawCont, lastStepPrompt, stream,
                   consumed, accumulatedResponse, toolsUsed>>

\* the stream ends and streamLLMDecision returns what it accumulated
StreamEnds ==
    /\ pc = "consume"
    /\ \E r \in Responses : llmResponse' = r
    /\ pc' = "evaluate"
    /\ openStreams' = forAwaitLeft(openStreams)
    /\ UNCHANGED <<envVars, trackerVars, callVars, options, isMediaTask, result, histVars,
                   stream, consumed, accumulatedResponse, toolsUsed>>

\* lines 86-113
Evaluate ==
    /\ pc = "evaluate"
    /\ LET evaluation == evaluateResponse(llmResponse)
       IN  IF evaluation.isComplete
           THEN /\ state' = markComplete(state)
                /\ pc' = "ended"
           ELSE IF evaluation.isFailed
           THEN /\ state' = markFailed(state)
                /\ pc' = "ended"
           ELSE /\ state' = recordSuccess(state)
                /\ pc' = "while"
    /\ last' = Signals(llmResponse)
    /\ sawCont' = (sawCont \/ Signals(llmResponse) = "continue")
    /\ llmResponse' = <<>>
    /\ UNCHANGED <<envVars, maxConsecutiveFailures, callVars, options, isMediaTask,
                   result, iters, sawRaise, lastStepPrompt, streamsOpened, turnVars>>

\* an exception is raised at one of the raise points: inside the try it
\* is caught by lines 114-129, outside it leaves run()
TurnRaises ==
    /\ pc \in RaisePoints
    /\ IF pc \in TryBlock
       THEN LET s == recordFailure(state, maxConsecutiveFailures)
            IN  /\ state' = s
                /\ pc' = IF tooManyFailures(s, options) THEN "ended" ELSE "while"
       ELSE /\ pc' = "rejected"
            /\ UNCHANGED state
    /\ last' = "raise"
    /\ sawRaise' = TRUE
    /\ llmResponse' = <<>>
    /\ openStreams' = IF pc = "consume" THEN forAwaitLeft(openStreams)
                      ELSE openStreams
    /\ UNCHANGED <<envVars, maxConsecutiveFailures, callVars, options, isMediaTask,
                   result, iters, sawCont, lastStepPrompt, streamsOpened, stream,
                   consumed, accumulatedResponse, toolsUsed>>

AfterLoop_checksEveryMediaTask ==
    /\ pc = "ended"
    /\ IF isMediaTask
       THEN /\ pc' = "snapshot"
            /\ UNCHANGED result
       ELSE /\ pc' = "returned"
            /\ result' = buildResult(state, maxConsecutiveFailures)
    /\ UNCHANGED <<envVars, trackerVars, callVars, options, isMediaTask, llmResponse,
                   histVars, turnVars>>

\* lines 132-137 and, when the media check is not made, line 168
AfterLoop ==
    /\ pc = "ended"
    /\ IF isMediaTask /\ getExitReason(state, maxConsecutiveFailures) = "success"
       THEN /\ pc' = "snapshot"
            /\ UNCHANGED result
       ELSE /\ pc' = "returned"
            /\ result' = buildResult(state, maxConsecutiveFailures)
    /\ UNCHANGED <<envVars, trackerVars, callVars, options, isMediaTask, llmResponse,
                   histVars, turnVars>>

\* getCurrentUrl resolves: lines 139-145 and, off a media site, line 168
SnapshotReturns ==
    /\ pc = "snapshot"
    /\ \E call \in SnapshotCalls :
         LET currentUrl == getCurrentUrl(call)
         IN  IF isOnMediaSite(currentUrl)
             THEN /\ pc' = "waitEnter"
                  /\ UNCHANGED result
             ELSE /\ pc' = "returned"
                  /\ result' = buildResult(state, maxConsecutiveFailures)
    /\ UNCHANGED <<envVars, trackerVars, callVars, options, isMediaTask, llmResponse,
                   histVars, turnVars>>

\* the user answers the prompt: lines 157-168
UserPressesEnter ==
    /\ pc = "waitEnter"
    /\ pc' = "returned"
    /\ result' = buildResult(state, maxConsecutiveFailures)
    /\ UNCHANGED <<envVars, trackerVars, callVars, options, isMediaTask, llmResponse,
                   histVars, turnVars>>

\* the steps the program and the services it awaits take by themselves:
\* execution is sequential, a stream ends or raises, the snapshot call
\* returns or fails
Progress ==
    \/ BeginIteration
    \/ ExitLoop
    \/ BuildPrompt
    \/ OpenStream
    \/ StreamEnds
    \/ Evaluate
    \/ TurnRaises
    \/ AfterLoop
    \/ SnapshotReturns

Next ==
    \/ Run
    \/ Progress
    \/ UserPressesEnter

Spec == Init /\ [][Next]_vars

\* run(task, options) is called again on an agent whose earlier run has
\* returned: with any task and maxSteps, the caller keeping the
\* maxFailures it passed before
RunAgain ==
    /\ pc = "returned"
    /\ \E ms \in StepsOpts, media \in BOOLEAN :
         StartRun(ms, options.maxFailures, media)
    /\ UNCHANGED envVars

NextRuns ==
    \/ Next
    \/ RunAgain

\* an agent on which run() is called any number of times, one call after
\* the other
SpecRuns == Init /\ [][NextRuns]_vars

\* every await of the program is answered (a stream ends or raises, the
\* snapshot call returns or fails) and execution goes on in between
FairSpec == Spec /\ WF_vars(Progress)

\* ... and the user answers the playback prompt
FairSpecUser == FairSpec /\ WF_vars(UserPressesEnter)


(***************************************************************************)
(* The chunks of a provider stream (streamLLMDecision, lines 216-241).     *)
(* A chunk may carry a content string, a toolExecution event, both or      *)
(* neither; toolExecution is {type, tool, error?}.                         *)
(***************************************************************************)
\* { content: text }
Text(text) == [content |-> Some(text), toolExecution |-> Undef]

\* { toolExecution: { type: 'tool:start', tool } }
ToolStart(tool) ==
    [ content       |-> Undef,
      toolExecution |-> Some([type |-> "tool:start", tool |-> tool,
                              error |-> Undef]) ]

\* { toolExecution: { type: 'tool:end', tool, error? } }
ToolEnd(tool, error) ==
    [ content       |-> Undef,
      toolExecution |-> Some([type |-> "tool:end", tool |-> tool,
                              error |-> error]) ]

\* { content: text, toolExecution: { type: 'tool:start', tool } }
TextAndToolStart(text, tool) ==
    [ content       |-> Some(text),
      toolExecution |-> ToolStart(tool).toolExecution ]

\* a chunk that is null, is no object or carries neither field
Other == [content |-> Undef, toolExecution |-> Undef]

\* toolsUsed.includes(tool)
Contains(list, x) == \E i \in 1..Len(list) : list[i] = x

appendContent_unlessTool(acc, chunk) ==
    IF chunk.content # Undef /\ chunk.toolExecution = Undef
    THEN acc \o chunk.content[1]
    ELSE acc

appendContent_withToolError(acc, chunk) ==
    LET text == IF chunk.content # Undef THEN acc \o chunk.content[1] ELSE acc
    IN  IF /\ chunk.toolExecution # Undef
           /\ chunk.toolExecution[1].type = "tool:end"
           /\ chunk.toolExecution[1].error # Undef
        THEN text \o chunk.toolExecution[1].error[1]
        ELSE text

\* lines 219-222: accumulatedResponse += chunk.content
appendContent(acc, chunk) ==
    IF chunk.content # Undef THEN acc \o chunk.content[1] ELSE acc

recordTool_always(tools, chunk) ==
    IF chunk.toolExecution # Undef /\ chunk.toolExecution[1].type = "tool:start"
    THEN Append(tools, chunk.toolExecution[1].tool)
    ELSE tools

\* lines 225-239: a tool:start event records the tool's name once; a
\* tool:end event is only logged, with or without an error
recordTool(tools, chunk) ==
    IF chunk.toolExecution # Undef
    THEN LET toolExecution == chunk.toolExecution[1]
         IN  IF toolExecution.type = "tool:start"
             THEN IF ~Contains(tools, toolExecution.tool)
                  THEN Append(tools, toolExecution.tool)
                  ELSE tools
             ELSE tools
    ELSE tools

(***************************************************************************)
(* Sample streams a provider can emit                                      *)
(***************************************************************************)
\* no chunk at all
S_Empty ==
    <<>>

\* tools started and ended, one of them started twice, text "still working"
S_Tools ==
    << ToolStart("browser_navigate"),
       ToolEnd("browser_navigate", Undef),
       Text(<<"s", "t", "i", "l", "l", " ">>),
       ToolStart("browser_snapshot"),
       ToolStart("browser_navigate"),
       Text(<<"w", "o", "r", "k", "i", "n", "g">>) >>

\* a completion signal split over two chunks, "TASK COM" and "PLETE: done",
\* before the last chunk
S_Split ==
    << Text(<<"T", "A", "S", "K", " ", "C", "O", "M">>),
       ToolStart("browser_snapshot"),
       Text(<<"P", "L", "E", "T", "E", ":", " ", "d", "o", "n", "e">>),
       ToolEnd("browser_snapshot", Undef) >>

\* a tool that ends with the error "task failed", then "still working"
S_ToolError ==
    << ToolStart("browser_click"),
       ToolEnd("browser_click", Some(<<"t", "a", "s", "k", " ", "f", "a", "i", "l", "e", "d">>)),
       Text(R_Working) >>

\* a chunk with both text and a tool event: "task failed" + ": stuck"
S_Mixed ==
    << TextAndToolStart(<<"t", "a", "s", "k", " ", "f", "a", "i", "l", "e", "d">>, "browser_type"),
       Other,
       Text(<<":", " ", "s", "t", "u", "c", "k">>),
       ToolEnd("browser_type", Some(<<"t", "i", "m", "e", "o", "u", "t">>)) >>

\* the end of a tool that no event started, with an error, then "Task Finished"
S_EndOnly ==
    << ToolEnd("browser_close", Some(<<"t", "i", "m", "e", "o", "u", "t">>)),
       Text(R_Finished) >>

Streams == { S_Empty, S_Tools, S_Split, S_ToolError, S_Mixed, S_EndOnly }

(***************************************************************************)
(* SpecTurn: the run of Spec with each provider stream consumed chunk by   *)
(* chunk (Spec takes the consumption of a stream as one step).             *)
(***************************************************************************)
\* neurolink.stream resolves with a stream and the locals are set: lines
\* 204-214
OpenProviderStream ==
    /\ pc = "open"
    /\ pc' = "consume"
    /\ \E s \in Streams : stream' = s
    /\ consumed' = 0
    /\ accumulatedResponse' = <<>>
    /\ toolsUsed' = <<>>
    /\ openStreams' = openStreams + 1
    /\ streamsOpened' = countStream(streamsOpened, options)
    /\ UNCHANGED <<envVars, trackerVars, callVars, options, isMediaTask, llmResponse,
                   result, iters, last, sawRaise, sawCont, lastStepPrompt>>

\* one pass of the for-await loop: lines 216-241
ConsumeChunk ==
    /\ pc = "consume"
    /\ consumed < Len(stream)
    /\ LET chunk == stream[consumed + 1]
       IN  /\ accumulatedResponse' = appendContent(accumulatedResponse, chunk)
           /\ toolsUsed' = recordTool(toolsUsed, chunk)
    /\ consumed' = consumed + 1
    /\ UNCHANGED <<envVars, trackerVars, callVars, runVars, histVars, stream, openStreams>>

\* the stream is exhausted and streamLLMDecision returns
\* accumulatedResponse: lines 243-247 and 83
StreamCompletes ==
    /\ pc = "consume"
    /\ consumed = Len(stream)
    /\ llmResponse' = accumulatedResponse
    /\ pc' = "evaluate"
    /\ openStreams' = forAwaitLeft(openStreams)
    /\ UNCHANGED <<envVars, trackerVars, callVars, options, isMediaTask, result, histVars,
                   stream, consumed, accumulatedResponse, toolsUsed>>

NextTurn ==
    \/ Run
    \/ BeginIteration
    \/ ExitLoop
    \/ BuildPrompt
    \/ OpenProviderStream
    \/ ConsumeChunk
    \/ StreamCompletes
    \/ Evaluate
    \/ TurnRaises
    \/ AfterLoop
    \/ SnapshotReturns
    \/ UserPressesEnter

SpecTurn == Init /\ [][NextTurn]_vars

(***************************************************************************)
(* More of String.prototype, on sequences of one-character strings         *)
(***************************************************************************)
DigitOf == <<"0", "1", "2", "3", "4", "5", "6", "7", "8", "9">>

Digits == {DigitOf[i] : i \in DOMAIN DigitOf}

\* \w of a regular expression: letters, digits and the underscore
WordChars ==
    DOMAIN LowerOf \cup {LowerOf[u] : u \in DOMAIN LowerOf} \cup Digits \cup {"_"}

IsWordChar(c) == c \in WordChars

\* \s of a regular expression, and what trim() removes
IsSpace(c) == c \in {" ", "\t", "\n", "\r"}

\* [^"\s] of a regular expression
IsUrlChar(c) == ~IsSpace(c) /\ c # "\""

\* [^"] of a regular expression
IsNotQuote(c) == c # "\""

\* the character classes of the regular expressions: \\w, \\s, [^"\\s],
\* [^"], and the characters getIndentLevel counts
InClass(class, c) ==
    CASE class = "word"     -> IsWordChar(c)
      [] class = "space"    -> IsSpace(c)
      [] class = "url"      -> IsUrlChar(c)
      [] class = "notquote" -> IsNotQuote(c)
      [] class = "indent"   -> c = " " \/ c = "\t"

\* the last index of the longest run of characters of the class that starts
\* at from (from - 1 when the run is empty)
RunEnd(str, from, class) ==
    CHOOSE j \in (from - 1)..Len(str) :
        \A k \in from..(IF j = Len(str) THEN j ELSE j + 1) :
            InClass(class, str[k]) <=> (k <= j)

\* str.substring(from - 1) starts with sub
MatchesAt(str, from, sub) ==
    /\ from >= 1 /\ from + Len(sub) - 1 <= Len(str)
    /\ \A k \in 1..Len(sub) : str[from + k - 1] = sub[k]

\* String.prototype.indexOf, counted from 1; 0 when sub does not occur
indexOf(str, sub) ==
    IF \E i \in 1..Len(str) : MatchesAt(str, i, sub)
    THEN CHOOSE i \in 1..Len(str) :
             /\ MatchesAt(str, i, sub)
             /\ \A k \in 1..(i - 1) : ~MatchesAt(str, k, sub)
    ELSE 0

\* String.prototype.startsWith
startsWith(str, sub) == MatchesAt(str, 1, sub)

\* String.prototype.trim
trim(str) ==
    IF \A i \in 1..Len(str) : IsSpace(str[i]) THEN <<>>
    ELSE LET head  == CHOOSE i \in 1..Len(str) :
                          ~IsSpace(str[i]) /\ \A k \in 1..(i - 1) : IsSpace(str[k])
             tail  == CHOOSE i \in 1..Len(str) :
                          ~IsSpace(str[i]) /\ \A k \in (i + 1)..Len(str) : IsSpace(str[k])
         IN  SubSeq(str, head, tail)

\* String.prototype.split
RECURSIVE split(_, _)
split(str, sep) ==
    LET i == indexOf(str, sep)
    IN  IF i = 0 THEN <<str>>
        ELSE <<SubSeq(str, 1, i - 1)>>
                 \o split(SubSeq(str, i + Len(sep), Len(str)), sep)

\* Array.prototype.join
RECURSIVE join(_, _)
join(parts, sep) ==
    IF Len(parts) = 0 THEN <<>>
    ELSE IF Len(parts) = 1 THEN parts[1]
    ELSE parts[1] \o sep \o join(Tail(parts), sep)

(***************************************************************************)
(* ResponseTrimmer                                                         *)
(***************************************************************************)
SKIP_ROLES ==
    { <<"s", "e", "p", "a", "r", "a", "t", "o", "r">>, <<"n", "o", "n", "e">>, <<"p", "r", "e", "s", "e", "n", "t", "a", "t", "i", "o", "n">>, <<"g", "e", "n", "e", "r", "i", "c">> }

INTERACTIVE_ROLES ==
    { <<"b", "u", "t", "t", "o", "n">>, <<"l", "i", "n", "k">>, <<"t", "e", "x", "t", "b", "o", "x">>, <<"s", "e", "a", "r", "c", "h", "b", "o", "x">>, <<"c", "o", "m", "b", "o", "b", "o", "x">>, <<"l", "i", "s", "t", "b", "o", "x">>,
      <<"c", "h", "e", "c", "k", "b", "o", "x">>, <<"r", "a", "d", "i", "o">>, <<"t", "a", "b">>, <<"m", "e", "n", "u", "i", "t", "e", "m">>, <<"o", "p", "t", "i", "o", "n">>, <<"s", "l", "i", "d", "e", "r">>,
      <<"s", "p", "i", "n", "b", "u", "t", "t", "o", "n">> }

SKIP_NAVIGATION_KEYWORDS ==
    { <<"s", "k", "i", "p", " ", "t", "o">>, <<"s", "k", "i", "p", " ", "n", "a", "v", "i", "g", "a", "t", "i", "o", "n">>, <<"k", "e", "y", "b", "o", "a", "r", "d", " ", "s", "h", "o", "r", "t", "c", "u", "t", "s">>, <<"a", "c", "c", "e", "s", "s", "i", "b", "i", "l", "i", "t", "y">> }

\* the number of leading lines searched for URL: and Title:
HeaderLines == 10

\* the width getIndentLevel gives a tab
TabWidth == 2

\* ResponseTrimmer.getIndentLevel
getIndentLevel(line) ==
    LET n == RunEnd(line, 1, "indent")
    IN  Cardinality({i \in 1..n : line[i] = " "})
            + TabWidth * Cardinality({i \in 1..n : line[i] = "\t"})

\* line.match(/^-\s+(\w+)/): the role, or <<>> without a match
matchRole(line) ==
    IF Len(line) >= 2 /\ line[1] = "-" /\ IsSpace(line[2])
    THEN LET s == RunEnd(line, 2, "space")
         IN  SubSeq(line, s + 1, RunEnd(line, s + 1, "word"))
    ELSE <<>>

\* line.match(/"([^"]+)"/): the name, or <<>> without a match
matchName(line) ==
    LET Opens(i) == /\ line[i] = "\""
                    /\ RunEnd(line, i + 1, "notquote") > i
                    /\ RunEnd(line, i + 1, "notquote") < Len(line)
    IN  IF \E i \in 1..Len(line) : Opens(i)
        THEN LET i == CHOOSE i \in 1..Len(line) :
                          Opens(i) /\ \A k \in 1..(i - 1) : ~Opens(k)
             IN  SubSeq(line, i + 1, RunEnd(line, i + 1, "notquote"))
        ELSE <<>>

\* line.match(/\[ref=(\w+)\]/): the reference, or <<>> without a match
matchRef(line) ==
    LET Opens(i) == /\ MatchesAt(line, i, <<"[", "r", "e", "f", "=">>)
                    /\ RunEnd(line, i + 5, "word") >= i + 5
                    /\ MatchesAt(line, RunEnd(line, i + 5, "word") + 1, <<"]">>)
    IN  IF \E i \in 1..Len(line) : Opens(i)
        THEN LET i == CHOOSE i \in 1..Len(line) :
                          Opens(i) /\ \A k \in 1..(i - 1) : ~Opens(k)
             IN  SubSeq(line, i + 5, RunEnd(line, i + 5, "word"))
        ELSE <<>>

\* line.match(/\/url:\s*"?([^"\s]+)"?/): the target, or <<>> without a match
matchUrl(line) ==
    LET Start(i) == LET s == RunEnd(line, i + 5, "space") + 1
                    IN  IF s <= Len(line) /\ line[s] = "\"" THEN s + 1 ELSE s
        Opens(i) == /\ MatchesAt(line, i, <<"/", "u", "r", "l", ":">>)
                    /\ RunEnd(line, Start(i), "url") >= Start(i)
    IN  IF \E i \in 1..Len(line) : Opens(i)
        THEN LET i == CHOOSE i \in 1..Len(line) :
                          Opens(i) /\ \A k \in 1..(i - 1) : ~Opens(k)
             IN  SubSeq(line, Start(i), RunEnd(line, Start(i), "url"))
        ELSE <<>>

\* ResponseTrimmer.parseYAMLLine: Undef stands for null
parseYAMLLine(line) ==
    IF matchRole(line) = <<>> THEN Undef
    ELSE Some([ type    |-> "element",
                role    |-> matchRole(line),
                name    |-> matchName(line),
                ref     |-> matchRef(line),
                url     |-> matchUrl(line),
                visible |-> ~includes(line, <<"(", "h", "i", "d", "d", "e", "n", ")">>) ])

isInteractive_keepsHidden(element) ==
    IF element.role \in INTERACTIVE_ROLES THEN TRUE
    ELSE IF element.role \in SKIP_ROLES THEN FALSE
    ELSE IF element.url # <<>> THEN TRUE
    ELSE IF Len(element.name) > 2 THEN TRUE
    ELSE FALSE

isInteractive_urlFirst(element) ==
    IF ~element.visible THEN FALSE
    ELSE IF element.role \in INTERACTIVE_ROLES THEN TRUE
    ELSE IF element.url # <<>> THEN TRUE
    ELSE IF element.role \in SKIP_ROLES THEN FALSE
    ELSE IF Len(element.name) > 2 THEN TRUE
    ELSE FALSE

\* ResponseTrimmer.isInteractive
isInteractive(element) ==
    IF ~element.visible THEN FALSE
    ELSE IF element.role # <<>> /\ element.role \in INTERACTIVE_ROLES THEN TRUE
    ELSE IF element.role # <<>> /\ element.role \in SKIP_ROLES THEN FALSE
    ELSE IF element.url # <<>> THEN TRUE
    ELSE IF element.name # <<>> /\ Len(element.name) > 2 THEN TRUE
    ELSE FALSE

formatElement_needsName(element) ==
    IF element.ref = <<>> \/ element.name = <<>> THEN Undef
    ELSE LET parts ==
                 << <<"[">> \o element.ref \o <<"]">> >>
                 \o (IF element.role # <<>> THEN <<element.role>> ELSE <<>>)
                 \o (IF element.name # <<>>
                     THEN << <<"\"">> \o element.name \o <<"\"">> >> ELSE <<>>)
                 \o (IF element.url # <<>>
                     THEN << <<"→", " ">> \o element.url >> ELSE <<>>)
         IN  Some(join(parts, <<" ">>))

\* ResponseTrimmer.formatElement: Undef stands for null
formatElement(element) ==
    IF element.ref = <<>> THEN Undef
    ELSE LET parts ==
                 << <<"[">> \o element.ref \o <<"]">> >>
                 \o (IF element.role # <<>> THEN <<element.role>> ELSE <<>>)
                 \o (IF element.name # <<>>
                     THEN << <<"\"">> \o element.name \o <<"\"">> >> ELSE <<>>)
                 \o (IF element.url # <<>>
                     THEN << <<"→", " ">> \o element.url >> ELSE <<>>)
         IN  Some(join(parts, <<" ">>))

\* line.split(key)[1]?.trim() || ''
afterKey(line, key) ==
    LET parts == split(line, key)
    IN  IF Len(parts) >= 2 THEN trim(parts[2]) ELSE <<>>

\* lines 98-108: the URL and the title of the first lines
RECURSIVE extractHeader(_, _, _)
extractHeader(lines, i, header) ==
    IF i > Len(lines) \/ i > HeaderLines THEN header
    ELSE LET line == lines[i]
         IN  extractHeader(lines, i + 1,
                 IF line # <<>> /\ includes(line, <<"U", "R", "L", ":">>)
                 THEN [header EXCEPT !.url = afterKey(line, <<"U", "R", "L", ":">>)]
                 ELSE IF line # <<>> /\ includes(line, <<"T", "i", "t", "l", "e", ":">>)
                 THEN [header EXCEPT !.title = afterKey(line, <<"T", "i", "t", "l", "e", ":">>)]
                 ELSE header)

\* the banner of the output: line 120
Banner ==
    <<"I", "n", "t", "e", "r", "a", "c", "t", "i", "v", "e", " ", "E", "l", "e", "m", "e", "n", "t", "s", " ", "(", "u", "s", "e", " ", "r", "e", "f", " ", "v", "a", "l", "u", "e", " ", "w", "i", "t", "h", "o", "u", "t", " ", "b", "r", "a", "c", "k", "e", "t", "s", " ", "f", "o", "r", " ", "P", "l", "a", "y", "w", "r", "i", "g", "h", "t", " ", "t", "o", "o", "l", "s", ")", ":">>

\* lines 111-121: the head of the output
outputHead(header) ==
    (IF header.url # <<>> THEN << <<"U", "R", "L", ":", " ">> \o header.url >> ELSE <<>>)
    \o (IF header.title # <<>> THEN << <<"T", "i", "t", "l", "e", ":", " ">> \o header.title >> ELSE <<>>)
    \o << <<>>, Banner, <<>> >>

\* the line has one of the skip navigation keywords
hasSkipKeyword(trimmedLine) ==
    LET lowerLine == toLowerCase(trimmedLine)
    IN  \E keyword \in SKIP_NAVIGATION_KEYWORDS : includes(lowerLine, keyword)

\* lines 160-171 of the loop: the element parsed from a line is filtered,
\* formatted and pushed
pushElement(t, element, lineNo) ==
    IF element = Undef THEN t
    ELSE IF ~isInteractive(element[1]) THEN t
    ELSE LET formatted == formatElement(element[1])
         IN  IF formatted # Undef /\ formatted[1] # <<>>
             THEN [t EXCEPT !.output = Append(@, formatted[1]),
                            !.emitted = Append(@, lineNo)]
             ELSE t

\* one pass of the loop over the lines (lines 127-172) on the loop's
\* variables t; t.emitted records the numbers of the lines that pushed an
\* entry and is not read by the loop
trimLine(t, line, lineNo) ==
    LET trimmedLine == trim(line)
    IN  IF trimmedLine = <<>> THEN t
        ELSE IF \/ startsWith(trimmedLine, <<"U", "R", "L", ":">>)
                \/ startsWith(trimmedLine, <<"T", "i", "t", "l", "e", ":">>)
                \/ startsWith(trimmedLine, <<"P", "a", "g", "e", " ", "L", "o", "a", "d", "e", "d", ":">>)
        THEN t
        ELSE IF hasSkipKeyword(trimmedLine)
        THEN [t EXCEPT !.inSkipSection = TRUE,
                       !.skipDepth = getIndentLevel(line)]
        ELSE IF t.inSkipSection /\ getIndentLevel(line) > t.skipDepth
        THEN t
        ELSE pushElement([t EXCEPT !.inSkipSection = FALSE],
                         parseYAMLLine(trimmedLine), lineNo)

RECURSIVE trimLines(_, _, _)
trimLines(t, lines, lineNo) ==
    IF lineNo > Len(lines) THEN t
    ELSE trimLines(trimLine(t, lines[lineNo], lineNo), lines, lineNo + 1)

\* the decimal digits of a natural number: what a template literal prints
RECURSIVE toDecimal(_)
toDecimal(n) ==
    IF n < 10 THEN <<DigitOf[n + 1]>>
    ELSE toDecimal(n \div 10) \o <<DigitOf[(n % 10) + 1]>>

summary_countsLines(output) ==
    <<"T", "o", "t", "a", "l", " ", "i", "n", "t", "e", "r", "a", "c", "t", "i", "v", "e", " ", "e", "l", "e", "m", "e", "n", "t", "s", ":", " ">> \o toDecimal(Len(output))

\* line 176: the count line
summary(output) ==
    <<"T", "o", "t", "a", "l", " ", "i", "n", "t", "e", "r", "a", "c", "t", "i", "v", "e", " ", "e", "l", "e", "m", "e", "n", "t", "s", ":", " ">>
        \o toDecimal(Cardinality({i \in 1..Len(output) :
                                     startsWith(output[i], <<"[">>)}))

\* the trimmed line is not skipped as empty or as metadata: lines 131-137
IsBodyLine(trimmedLine) ==
    /\ trimmedLine # <<>>
    /\ ~startsWith(trimmedLine, <<"U", "R", "L", ":">>)
    /\ ~startsWith(trimmedLine, <<"T", "i", "t", "l", "e", ":">>)
    /\ ~startsWith(trimmedLine,
                   <<"P", "a", "g", "e", " ", "L", "o", "a", "d", "e", "d", ":">>)

\* what the loop computes of a line on its own: the element parsed from it,
\* its indentation, whether it reaches the keyword test and whether it
\* passes it
lineFacts(line) ==
    LET trimmedLine == trim(line)
        body == IsBodyLine(trimmedLine)
    IN  [ element |-> parseYAMLLine(trimmedLine),
          indent  |-> getIndentLevel(line),
          body    |-> body,
          noise   |-> body /\ hasSkipKeyword(trimmedLine) ]

\* lines 174-178: the summary is added to the output of the loop and the
\* lines are joined.  text is the string returned; the header, the loop's
\* variables at its end and lineFacts of every line go with it
joinOutput(lines, header, end) ==
    [ text    |-> join(end.output \o << <<>>, summary(end.output) >>, <<"\n">>),
      header  |-> header,
      emitted |-> end.emitted,
      lines   |-> lines,
      about   |-> [i \in DOMAIN lines |-> lineFacts(lines[i])] ]

\* lines 111-172: the head of the output and the loop over the lines
trimFrom(lines, header) ==
    joinOutput(lines, header,
               trimLines([ output        |-> outputHead(header),
                           inSkipSection |-> FALSE,
                           skipDepth     |-> 0,
                           emitted       |-> <<>> ], lines, 1))

\* lines 95-108: the header of the lines
trimSplit(lines) ==
    trimFrom(lines, extractHeader(lines, 1, [url |-> <<>>, title |-> <<>>]))

\* ResponseTrimmer.trimYAMLSnapshot with what it computed on the way
trimYAML(yamlText) == trimSplit(split(yamlText, <<"\n">>))

\* ResponseTrimmer.trimYAMLSnapshot
trimYAMLSnapshot(yamlText) == trimYAML(yamlText).text

\* the values a tool's content can have: undefined, something that is not
\* an array, or an array of items
Undefined == [is |-> "undefined"]

NotAnArray == [is |-> "object"]

ArrayOf(items) == [is |-> "array", items |-> items]

\* the items of a content array; NullItem stands for null
TextItem(text) == [type |-> "text", text |-> text]

ImageItem == [type |-> "image", data |-> <<"i">>]

NullItem == [type |-> "null"]

\* lines 77-81: the text trimYAMLSnapshot returned is pushed as a text item
pushTrimmed(r, call) ==
    [r EXCEPT !.content = Append(@, TextItem(call.text)),
              !.calls = Append(@, call)]

\* the loop of trimSnapshot, lines 74-86, from item i on; reading the type
\* of null raises; r.calls records each call of trimYAMLSnapshot and is not
\* read by the loop
RECURSIVE trimItems(_, _, _)
trimItems(items, i, r) ==
    IF i > Len(items) THEN r
    ELSE LET item == items[i]
         IN  IF item = NullItem THEN [r EXCEPT !.threw = TRUE]
             ELSE IF item.type = "text" /\ item.text # <<>>
             THEN trimItems(items, i + 1, pushTrimmed(r, trimYAML(item.text)))
             ELSE trimItems(items, i + 1, [r EXCEPT !.content = Append(@, item)])

\* line 88: the array of the items pushed is returned, unless the loop threw
trimmedContent(r) ==
    [threw |-> r.threw, value |-> ArrayOf(r.content), calls |-> r.calls]

\* ResponseTrimmer.trimSnapshot: whether it threw, the value it returned
\* and the calls of trimYAMLSnapshot it made
trimSnapshot(response) ==
    IF response.is # "array"
    THEN [threw |-> FALSE, value |-> response, calls |-> <<>>]
    ELSE trimmedContent(trimItems(response.items, 1,
                            [threw |-> FALSE, content |-> <<>>, calls |-> <<>>]))

(***************************************************************************)
(* SpecTrim: trimSnapshot applied to a snapshot                            *)
(***************************************************************************)
\* the longest snapshot text, in lines
MaxLines == 3

L_Url == <<"U", "R", "L", ":", " ", "a", ".", "i", "o">>

L_Title == <<"T", "i", "t", "l", "e", ":", " ", "H", "i">>

L_NoiseHeader == <<"-", " ", "l", "i", "s", "t", " ", "\"", "S", "k", "i", "p", " ", "t", "o", " ", "x", "\"", ":">>

L_NoiseLink == <<" ", " ", "-", " ", "l", "i", "n", "k", " ", "\"", "S", "k", "i", "p", " ", "t", "o", " ", "y", "\"", " ", "[", "r", "e", "f", "=", "e", "1", "]">>

L_Link == <<" ", " ", "-", " ", "l", "i", "n", "k", " ", "\"", "H", "o", "m", "e", "\"", " ", "[", "r", "e", "f", "=", "e", "2", "]">>

L_Button == <<"-", " ", "b", "u", "t", "t", "o", "n", " ", "\"", "G", "o", "\"", " ", "[", "r", "e", "f", "=", "e", "3", "]">>

L_Hidden == <<"-", " ", "b", "u", "t", "t", "o", "n", " ", "\"", "N", "o", "\"", " ", "[", "r", "e", "f", "=", "e", "4", "]", " ", "(", "h", "i", "d", "d", "e", "n", ")">>

L_Generic == <<"-", " ", "g", "e", "n", "e", "r", "i", "c", " ", "[", "r", "e", "f", "=", "e", "5", "]", " ", "/", "u", "r", "l", ":", " ", "/", "x">>

L_Heading == <<"-", " ", "h", "e", "a", "d", "i", "n", "g", " ", "\"", "W", "e", "l", "c", "o", "m", "e", "\"">>

L_Image == <<"-", " ", "i", "m", "g", " ", "\"", "a", "b", "\"", " ", "[", "r", "e", "f", "=", "e", "6", "]">>

L_Target == <<"-", " ", "i", "m", "g", " ", "[", "r", "e", "f", "=", "e", "7", "]", " ", "/", "u", "r", "l", ":", " ", "\"", "/", "y", "\"">>

L_Textbox == <<"\t", "-", " ", "t", "e", "x", "t", "b", "o", "x", " ", "[", "r", "e", "f", "=", "e", "8", "]">>

L_Plain == <<"p", "l", "a", "i", "n", " ", "t", "e", "x", "t">>

L_Empty == <<>>

SampleLines ==
    { L_Url, L_Title, L_NoiseHeader, L_NoiseLink, L_Link, L_Button, L_Hidden,
      L_Generic, L_Heading, L_Image, L_Target, L_Textbox, L_Plain,
      L_Empty }

\* the texts of up to MaxLines sample lines
SampleTexts ==
    { join(ls, <<"\n">>) :
        ls \in UNION { [1..n -> SampleLines] : n \in 0..MaxLines } }

\* content that is not one text item
OtherResponses ==
    { Undefined, NotAnArray, ArrayOf(<<>>), ArrayOf(<<NullItem>>),
      ArrayOf(<<ImageItem>>), ArrayOf(<<ImageItem, TextItem(L_Button)>>) }

SampleResponses ==
    { ArrayOf(<<TextItem(t)>>) : t \in SampleTexts } \cup OtherResponses

NotTrimmed == [threw |-> FALSE, value |-> Undefined, calls |-> <<>>]

InitTrim ==
    /\ LET sm == StateManager([maxSteps |-> Undef, maxConsecutiveFailures |-> Undef])
       IN  /\ state = sm.state
           /\ maxConsecutiveFailures = sm.maxConsecutiveFailures
    /\ CallsAtRest
    /\ RunAtRest
    /\ toolCall = Idle /\ proc = Idle
    /\ clients = Idle /\ mediaWait = Idle /\ history = Idle
    /\ \E r \in SampleResponses :
         compress = [phase |-> "given", response |-> r,
                     first |-> NotTrimmed, second |-> NotTrimmed]

\* responseTrimmer.trimSnapshot(response)
TrimSnapshot ==
    /\ compress.phase = "given"
    /\ compress' = [compress EXCEPT !.phase = "trimmed",
                                    !.first = trimSnapshot(compress.response)]
    /\ UNCHANGED <<trackerVars, callVars, runVars, histVars, turnVars,
                   toolCall, proc, clients, mediaWait,
                   history>>

\* trimSnapshot applied to what the first call returned
TrimSnapshotAgain ==
    /\ compress.phase = "trimmed"
    /\ ~compress.first.threw
    /\ compress' = [compress EXCEPT !.phase = "retrimmed",
                                    !.second = trimSnapshot(compress.first.value)]
    /\ UNCHANGED <<trackerVars, callVars, runVars, histVars, turnVars,
                   toolCall, proc, clients, mediaWait,
                   history>>

NextTrim == TrimSnapshot

SpecTrim == InitTrim /\ [][NextTrim]_vars

\* SpecTrimTwice: trimSnapshot, then trimSnapshot on what it returned
NextTrimTwice ==
    \/ TrimSnapshot
    \/ TrimSnapshotAgain

SpecTrimTwice == InitTrim /\ [][NextTrimTwice]_vars

(***************************************************************************)
(* PlaywrightClient.executeTool and the execute wrapper of NeuroLinkClient *)
(***************************************************************************)
\* the tools registered with the provider
essentialToolNames ==
    { <<"b", "r", "o", "w", "s", "e", "r", "_", "n", "a", "v", "i", "g", "a", "t", "e">>, <<"b", "r", "o", "w", "s", "e", "r", "_", "c", "l", "i", "c", "k">>, <<"b", "r", "o", "w", "s", "e", "r", "_", "t", "y", "p", "e">>, <<"b", "r", "o", "w", "s", "e", "r", "_", "s", "n", "a", "p", "s", "h", "o", "t">>,
      <<"b", "r", "o", "w", "s", "e", "r", "_", "f", "i", "l", "l", "_", "f", "o", "r", "m">>, <<"b", "r", "o", "w", "s", "e", "r", "_", "t", "a", "k", "e", "_", "s", "c", "r", "e", "e", "n", "s", "h", "o", "t">>, <<"b", "r", "o", "w", "s", "e", "r", "_", "w", "a", "i", "t", "_", "f", "o", "r">> }

\* the values of params.timeout and of params.text: absent, falsy, truthy
SampleTimeouts == { Undef, Some(0), Some(2000) }

SampleTextParams == { Undef, Some(<<>>), Some(<<"D", "o", "n", "e">>) }

SampleParams == [ timeout : SampleTimeouts, text : SampleTextParams ]

\* the content the backend answers with
SampleContents ==
    OtherResponses
        \cup { ArrayOf(<<TextItem(t)>>) :
                 t \in { L_Button, L_Plain,
                         join(<<L_Url, L_Title, L_Link>>, <<"\n">>) } }

\* toolName === 'browser_wait_for' && params.timeout && !params.text
isMediaWait(toolName, params) ==
    /\ toolName = <<"b", "r", "o", "w", "s", "e", "r", "_", "w", "a", "i", "t", "_", "f", "o", "r">>
    /\ params.timeout # Undef /\ params.timeout[1] # 0
    /\ ~(params.text # Undef /\ params.text[1] # <<>>)

\* Math.floor(timeoutMs / 1000)
durationSec(timeoutMs) == timeoutMs \div 1000

\* the content handleMediaWait returns: lines 144-154; "U+2705", "U+23ED"
\* and "U+FE0F" stand for the characters of the pictographs, which a TLA+
\* string cannot hold
mediaWaitContent(timeoutMs, skipped, elapsed) ==
    ArrayOf(<< TextItem(
        IF skipped
        THEN <<"U+23ED", "U+FE0F", " ", "M", "e", "d", "i", "a", " ", "p", "l", "a", "y", "b", "a", "c", "k", " ", "s", "k", "i", "p", "p", "e", "d", " ", "b", "y", " ", "u", "s", "e", "r", " ", "a", "f", "t", "e", "r", " ">> \o toDecimal(elapsed)
                 \o <<"s">>
        ELSE <<"U+2705", " ", "W", "a", "i", "t", "e", "d", " ", "f", "o", "r", " ">> \o toDecimal(durationSec(timeoutMs))
                 \o <<"s", " ", "m", "e", "d", "i", "a", " ", "p", "l", "a", "y", "b", "a", "c", "k", " ", "t", "o", " ", "c", "o", "m", "p", "l", "e", "t", "e">>) >>)

\* the content of the minimal success message: lines 207-210
acknowledgment(toolName) ==
    ArrayOf(<< TextItem(<<"U+2705", " ">> \o toolName \o <<" ", "e", "x", "e", "c", "u", "t", "e", "d", " ", "s", "u", "c", "c", "e", "s", "s", "f", "u", "l", "l", "y">>) >>)

\* lines 187-198: the result that carries what trimSnapshot returned
snapshotResult(r) == [threw |-> r.threw, content |-> r.value]

toolContent_rawForOthers(toolName, originalContent) ==
    IF toolName = <<"b", "r", "o", "w", "s", "e", "r", "_", "s", "n", "a", "p", "s", "h", "o", "t">>
    THEN snapshotResult(trimSnapshot(originalContent))
    ELSE [threw |-> FALSE, content |-> originalContent]

\* the try block after callTool has resolved, lines 180-213: whether it
\* raised and the content of the result
toolContent(toolName, originalContent) ==
    IF toolName = <<"b", "r", "o", "w", "s", "e", "r", "_", "s", "n", "a", "p", "s", "h", "o", "t">>
    THEN snapshotResult(trimSnapshot(originalContent))
    ELSE [threw |-> FALSE, content |-> acknowledgment(toolName)]

InitTool ==
    /\ LET sm == StateManager([maxSteps |-> Undef, maxConsecutiveFailures |-> Undef])
       IN  /\ state = sm.state
           /\ maxConsecutiveFailures = sm.maxConsecutiveFailures
    /\ CallsAtRest
    /\ RunAtRest
    /\ compress = Idle /\ proc = Idle
    /\ clients = Idle /\ mediaWait = Idle /\ history = Idle
    /\ \E initialized \in BOOLEAN, toolName \in essentialToolNames,
          params \in SampleParams :
         toolCall = [ phase        |-> "called",
                      initialized  |-> initialized,
                      toolName     |-> toolName,
                      params       |-> params,
                      backendCalls |-> 0,
                      raw          |-> Undefined,
                      content      |-> Undefined,
                      handed       |-> Undefined ]

\* executeTool up to its first await: lines 163-177
ExecuteTool ==
    /\ toolCall.phase = "called"
    /\ toolCall' =
           IF ~toolCall.initialized
           THEN [toolCall EXCEPT !.phase = "threw"]
           ELSE IF isMediaWait(toolCall.toolName, toolCall.params)
           THEN [toolCall EXCEPT !.phase = "waiting"]
           ELSE [toolCall EXCEPT !.phase = "backend",
                                 !.backendCalls = @ + 1]
    /\ UNCHANGED <<trackerVars, callVars, runVars, histVars, turnVars,
                   compress, proc, clients, mediaWait,
                   history>>

\* handleMediaWait returns, after the timeout or after the user pressed
\* Enter: lines 129-154
MediaWaitEnds ==
    /\ toolCall.phase = "waiting"
    /\ \E skipped \in BOOLEAN,
          elapsed \in 0..durationSec(toolCall.params.timeout[1]) :
         toolCall' =
             [toolCall EXCEPT
                 !.phase = "returned",
                 !.content = mediaWaitContent(toolCall.params.timeout[1],
                                              skipped, elapsed)]
    /\ UNCHANGED <<trackerVars, callVars, runVars, histVars, turnVars,
                   compress, proc, clients, mediaWait,
                   history>>

\* mcpClient.callTool resolves and executeTool returns or raises: lines
\* 175-217
BackendReturns ==
    /\ toolCall.phase = "backend"
    /\ \E originalContent \in SampleContents :
         \E r \in {toolContent(toolCall.toolName, originalContent)} :
             toolCall' =
                 [toolCall EXCEPT
                     !.raw = originalContent,
                     !.phase = IF r.threw THEN "threw" ELSE "returned",
                     !.content = IF r.threw THEN @ ELSE r.content]
    /\ UNCHANGED <<trackerVars, callVars, runVars, histVars, turnVars,
                   compress, proc, clients, mediaWait,
                   history>>

\* mcpClient.callTool rejects; the catch block rethrows: lines 214-217
BackendThrows ==
    /\ toolCall.phase = "backend"
    /\ toolCall' = [toolCall EXCEPT !.phase = "threw"]
    /\ UNCHANGED <<trackerVars, callVars, runVars, histVars, turnVars,
                   compress, proc, clients, mediaWait,
                   history>>

\* the execute wrapper hands result.content to the provider:
\* NeuroLinkClient.ts lines 130-141
WrapperReturns ==
    /\ toolCall.phase = "returned"
    /\ toolCall' = [toolCall EXCEPT !.phase = "handed",
                                    !.handed = toolCall.content]
    /\ UNCHANGED <<trackerVars, callVars, runVars, histVars, turnVars,
                   compress, proc, clients, mediaWait,
                   history>>

NextTool ==
    \/ ExecuteTool
    \/ MediaWaitEnds
    \/ BackendReturns
    \/ BackendThrows
    \/ WrapperReturns

SpecTool == InitTool /\ [][NextTool]_vars

(***************************************************************************)
(* SpecCli: the command line program and the demo program around one run   *)
(***************************************************************************)
\* maxFailures of the command line program's call of run
CliMaxFailures == 3

\* maxSteps and maxFailures of the demo program's call of run
DemoMaxSteps == 20

DemoMaxFailures == 5

Programs == {"cli", "demo"}

InitCli ==
    /\ LET sm == StateManager([maxSteps |-> Undef, maxConsecutiveFailures |-> Undef])
       IN  /\ state = sm.state
           /\ maxConsecutiveFailures = sm.maxConsecutiveFailures
    /\ CallsAtRest
    /\ RunAtRest
    /\ compress = Idle /\ toolCall = Idle
    /\ clients = Idle /\ mediaWait = Idle /\ history = Idle
    /\ \E program \in Programs :
         proc = [ phase       |-> IF program = "cli" THEN "start" ELSE "construct",
                  program     |-> program,
                  task        |-> program = "demo",
                  initialized |-> FALSE,
                  cleanedUp   |-> FALSE,
                  exitCode    |-> Undef ]

\* process.exit(code), and the end of the process when nothing is left to
\* run, which is an exit with code 0
exit(p, code) == [p EXCEPT !.phase = "exited", !.exitCode = Some(code)]

OnlyProc ==
    UNCHANGED <<trackerVars, callVars, runVars, histVars, turnVars,
                compress, toolCall, clients, mediaWait,
                   history>>

\* main: the answers to the prompts are in, part_002 lines 42-48
GetTaskDetails ==
    /\ proc.phase = "start"
    /\ \E task \in BOOLEAN :
         proc' = IF task
                 THEN [proc EXCEPT !.phase = "construct", !.task = TRUE]
                 ELSE exit(proc, 0)
    /\ OnlyProc

\* new BrowserBot(), outside the try block: the constructor of
\* NeuroLinkClient throws when the environment lacks the API key or the
\* endpoint, and the rejected promise of main, or of runAmazonDemo, ends the
\* process with code 1 (part_002 lines 51 and 83-86, part_000 lines 25, 106)
NewBrowserBot ==
    /\ proc.phase = "construct"
    /\ \E ok \in BOOLEAN :
         proc' = IF ok
                 THEN [proc EXCEPT !.phase = "initialize"]
                 ELSE exit(proc, 1)
    /\ OnlyProc

\* agent.initialize() resolves or rejects; a rejection ends in the catch
\* block, which exits with code 1: part_002 lines 53-54 and 73-75,
\* part_000 lines 27-30 and 97-100.  The catch block is not reached from
\* run(), which catches what its iterations raise and never rejects.
AgentInitialize ==
    /\ proc.phase = "initialize"
    /\ \E ok \in BOOLEAN :
         proc' = IF ok
                 THEN [proc EXCEPT !.phase = "run", !.initialized = TRUE]
                 ELSE exit(proc, 1)
    /\ OnlyProc

\* agent.run(task, options) is called: part_002 lines 57-60, part_000
\* lines 50-55
ProgramRuns ==
    /\ proc.phase = "run"
    /\ pc = "idle"
    /\ IF proc.program = "cli"
       THEN \E ms \in StepsOpts, media \in BOOLEAN :
                StartRun(ms, Some(CliMaxFailures), media)
       ELSE StartRun(Some(DemoMaxSteps), Some(DemoMaxFailures), FALSE)
    /\ proc' = [proc EXCEPT !.phase = "running"]
    /\ UNCHANGED <<compress, toolCall, clients, mediaWait,
                   history>>

\* run() has resolved with the result. The command line program prints it,
\* cleans up in the finally block and main returns: the process ends with
\* code 0, or with code 1 from the handler of main's rejection when the
\* cleanup rejects (part_002 lines 62-86). The demo program cleans up and
\* exits by result.success; a rejected cleanup ends in the catch block
\* (part_000 lines 84-100).
RunResolved ==
    /\ proc.phase = "running"
    /\ pc = "returned"
    /\ \E cleaned \in BOOLEAN :
         proc' = [ exit(proc,
                        IF ~cleaned THEN 1
                        ELSE IF proc.program = "cli" THEN 0
                        ELSE IF result.success THEN 0 ELSE 1)
                   EXCEPT !.cleanedUp = cleaned ]
    /\ OnlyProc

NextCli ==
    \/ GetTaskDetails
    \/ NewBrowserBot
    \/ AgentInitialize
    \/ ProgramRuns
    \/ BeginIteration
    \/ ExitLoop
    \/ BuildPrompt
    \/ OpenStream
    \/ StreamEnds
    \/ Evaluate
    \/ TurnRaises
    \/ AfterLoop
    \/ SnapshotReturns
    \/ UserPressesEnter
    \/ RunResolved

SpecCli == InitCli /\ [][NextCli]_vars

(***************************************************************************)
(* SpecClient: the lifecycle of a PlaywrightClient, used on its own or as  *)
(* the private client of a NeuroLinkClient.  Every method is taken as one  *)
(* step (the program awaits each call before it makes the next); what the  *)
(* backend and the provider answer is chosen in the step.                  *)
(***************************************************************************)
\* number of method calls made on the clients
MaxClientOps == 4

\* tool names a backend may list: three of the allow-list and two others
BackendToolNames ==
    { <<"b", "r", "o", "w", "s", "e", "r", "_", "n", "a", "v", "i", "g", "a", "t", "e">>, <<"b", "r", "o", "w", "s", "e", "r", "_", "s", "n", "a", "p", "s", "h", "o", "t">>, <<"b", "r", "o", "w", "s", "e", "r", "_", "w", "a", "i", "t", "_", "f", "o", "r">>,
      <<"b", "r", "o", "w", "s", "e", "r", "_", "e", "v", "a", "l", "u", "a", "t", "e">>, <<"b", "r", "o", "w", "s", "e", "r", "_", "c", "l", "o", "s", "e">> }

Owners == {"playwright", "neurolink"}

InitClient ==
    /\ LET sm == StateManager([maxSteps |-> Undef, maxConsecutiveFailures |-> Undef])
       IN  /\ state = sm.state
           /\ maxConsecutiveFailures = sm.maxConsecutiveFailures
    /\ CallsAtRest
    /\ RunAtRest
    /\ compress = Idle /\ toolCall = Idle /\ proc = Idle
    /\ mediaWait = Idle /\ history = Idle
    /\ \E owner \in Owners, listed \in SUBSET BackendToolNames :
         clients = [ phase          |-> "live",
                     owner          |-> owner,
                     listed         |-> listed,   \* what the backend lists
                     \* PlaywrightClient
                     initialized    |-> FALSE,
                     mcpClient      |-> FALSE,    \* this.mcpClient is set
                     \* NeuroLinkClient
                     nlInitialized  |-> FALSE,
                     registered     |-> {},       \* the provider's registry
                     \* what has happened so far
                     connected      |-> FALSE,    \* connect resolved, no cleanup since
                     nlReady        |-> FALSE,    \* initialize resolved, no cleanup since
                     connections    |-> 0,        \* mcpClient.connect calls
                     listings       |-> 0,        \* mcpClient.listTools calls
                     toolCalls      |-> 0,        \* mcpClient.callTool calls
                     registrations  |-> 0,        \* neurolink.registerTools calls
                     providerCalls  |-> 0,        \* neurolink.stream calls
                     invoked        |-> {},       \* tools the provider has invoked
                     ops            |-> 0,
                     last           |-> [op |-> "none", outcome |-> "none"] ]

\* a method call ends: it returned, raised the not-initialized error, or
\* raised what the backend or the provider raised
ended(c, op, outcome) ==
    [c EXCEPT !.ops = @ + 1, !.last = [op |-> op, outcome |-> outcome]]

\* PlaywrightClient.initialize
pwInitialize(c, connectOk) ==
    IF c.initialized
    THEN c
    ELSE [c EXCEPT !.mcpClient = TRUE,
                   !.connections = @ + 1,
                   !.initialized = connectOk,
                   !.connected = connectOk]

\* the guard of executeTool and of listTools
notInitialized_clientOnly(c) == ~c.mcpClient

notInitialized(c) == ~c.initialized \/ ~c.mcpClient

\* PlaywrightClient.executeTool: the outcome and the client after it
pwExecuteTool(c, toolName, params, callOk) ==
    IF notInitialized(c)
    THEN [outcome |-> "notInitialized", c |-> c]
    ELSE IF isMediaWait(toolName, params)
    THEN [outcome |-> "returned", c |-> c]
    ELSE [outcome |-> IF callOk THEN "returned" ELSE "raised",
          c       |-> [c EXCEPT !.toolCalls = @ + 1]]

\* PlaywrightClient.listTools
pwListTools(c, listOk) ==
    IF notInitialized(c)
    THEN [outcome |-> "notInitialized", c |-> c]
    ELSE [outcome |-> IF listOk THEN "returned" ELSE "raised",
          c       |-> [c EXCEPT !.listings = @ + 1]]

\* PlaywrightClient.cleanup: close() is awaited before the flag is cleared
pwCleanup(c, closeOk) ==
    IF c.mcpClient /\ ~closeOk
    THEN [outcome |-> "raised", c |-> c]
    ELSE [outcome |-> "returned",
          c       |-> [c EXCEPT !.initialized = FALSE, !.connected = FALSE]]

\* toolsToRegister: the listed tools whose name is on the allow-list
toolsToRegister_all(tools) == tools

toolsToRegister(tools) == { tool \in tools : tool \in essentialToolNames }

\* NeuroLinkClient.initialize
nlInitialize(c, connectOk, listOk) ==
    IF c.nlInitialized
    THEN [outcome |-> "returned", c |-> c]
    ELSE IF ~pwInitialize(c, connectOk).initialized
    THEN [outcome |-> "raised", c |-> pwInitialize(c, connectOk)]
    ELSE IF ~listOk
    THEN [outcome |-> "raised", c |-> pwListTools(pwInitialize(c, connectOk), listOk).c]
    ELSE [outcome |-> "returned",
          c |-> [pwListTools(pwInitialize(c, connectOk), listOk).c EXCEPT
                     !.registered = @ \cup toolsToRegister(c.listed),
                     !.registrations = @ + 1,
                     !.nlInitialized = TRUE,
                     !.nlReady = TRUE]]

\* NeuroLinkClient.stream
nlStream(c, streamOk) ==
    IF ~c.nlInitialized
    THEN [outcome |-> "notInitialized", c |-> c]
    ELSE [outcome |-> IF streamOk THEN "returned" ELSE "raised",
          c       |-> [c EXCEPT !.providerCalls = @ + 1]]

\* NeuroLinkClient.cleanup
nlCleanup(c, closeOk) ==
    IF pwCleanup(c, closeOk).outcome = "raised"
    THEN [outcome |-> "raised", c |-> c]
    ELSE [outcome |-> "returned",
          c       |-> [pwCleanup(c, closeOk).c EXCEPT !.nlInitialized = FALSE,
                                                      !.nlReady = FALSE]]

ClientLive(owner) ==
    /\ clients.phase = "live"
    /\ clients.owner = owner
    /\ clients.ops < MaxClientOps

OnlyClients ==
    UNCHANGED <<trackerVars, callVars, runVars, histVars, turnVars,
                compress, toolCall, proc, mediaWait, history>>

PwInitialize ==
    /\ ClientLive("playwright")
    /\ \E connectOk \in BOOLEAN :
         \E c \in {pwInitialize(clients, connectOk)} :
             clients' = ended(c, "pw.initialize",
                              IF c.initialized THEN "returned" ELSE "raised")
    /\ OnlyClients

PwExecuteTool ==
    /\ ClientLive("playwright")
    /\ \E toolName \in BackendToolNames, params \in SampleParams, callOk \in BOOLEAN :
         \E r \in {pwExecuteTool(clients, toolName, params, callOk)} :
             clients' = ended(r.c, "executeTool", r.outcome)
    /\ OnlyClients

PwListTools ==
    /\ ClientLive("playwright")
    /\ \E listOk \in BOOLEAN :
         \E r \in {pwListTools(clients, listOk)} :
             clients' = ended(r.c, "listTools", r.outcome)
    /\ OnlyClients

PwCleanup ==
    /\ ClientLive("playwright")
    /\ \E closeOk \in BOOLEAN :
         \E r \in {pwCleanup(clients, closeOk)} :
             clients' = ended(r.c, "pw.cleanup", r.outcome)
    /\ OnlyClients

NlInitialize ==
    /\ ClientLive("neurolink")
    /\ \E connectOk \in BOOLEAN, listOk \in BOOLEAN :
         \E r \in {nlInitialize(clients, connectOk, listOk)} :
             clients' = ended(r.c, "nl.initialize", r.outcome)
    /\ OnlyClients

NlStream ==
    /\ ClientLive("neurolink")
    /\ \E streamOk \in BOOLEAN :
         \E r \in {nlStream(clients, streamOk)} :
             clients' = ended(r.c, "stream", r.outcome)
    /\ OnlyClients

NlCleanup ==
    /\ ClientLive("neurolink")
    /\ \E closeOk \in BOOLEAN :
         \E r \in {nlCleanup(clients, closeOk)} :
             clients' = ended(r.c, "nl.cleanup", r.outcome)
    /\ OnlyClients

\* the model, answering a stream, invokes a tool of the provider's
\* registry; its execute wrapper calls executeTool: NeuroLinkClient.ts
\* lines 130-141
ProviderInvokesTool ==
    /\ ClientLive("neurolink")
    /\ clients.providerCalls > 0
    /\ \E toolName \in clients.registered, params \in SampleParams, callOk \in BOOLEAN :
         \E r \in {pwExecuteTool(clients, toolName, params, callOk)} :
             clients' = [ended(r.c, "executeTool", r.outcome) EXCEPT
                             !.invoked = @ \cup {toolName}]
    /\ OnlyClients

NextClient ==
    \/ PwInitialize
    \/ PwExecuteTool
    \/ PwListTools
    \/ PwCleanup
    \/ NlInitialize
    \/ NlStream
    \/ NlCleanup
    \/ ProviderInvokesTool

SpecClient == InitClient /\ [][NextClient]_vars

(***************************************************************************)
(* SpecWait: a browser_wait_for call on an initialized PlaywrightClient.   *)
(* handleMediaWait runs on the event loop: a step is one callback (a line  *)
(* of input, a firing of the progress interval, the firing of the timeout) *)
(* together with the promise reactions it sets off, which run before the   *)
(* next callback.                                                          *)
(***************************************************************************)
\* the longest timeout of a call, in half seconds
MaxWaitHalfSeconds == 6

\* the period of the progress interval, in ms: line 126
TickMs == 1000

WaitTimeouts == { 500 * h : h \in 1..MaxWaitHalfSeconds }

WaitParams ==
    [ timeout : {Undef, Some(0)} \cup { Some(t) : t \in WaitTimeouts },
      text    : SampleTextParams ]

browser_wait_for == <<"b", "r", "o", "w", "s", "e", "r", "_", "w", "a", "i", "t", "_", "f", "o", "r">>

InitWait ==
    /\ LET sm == StateManager([maxSteps |-> Undef, maxConsecutiveFailures |-> Undef])
       IN  /\ state = sm.state
           /\ maxConsecutiveFailures = sm.maxConsecutiveFailures
    /\ CallsAtRest
    /\ RunAtRest
    /\ compress = Idle /\ toolCall = Idle /\ proc = Idle
    /\ clients = Idle /\ history = Idle
    /\ \E params \in WaitParams :
         mediaWait = [ phase           |-> "called",
                       params          |-> params,
                       backendCalls    |-> 0,
                       returns         |-> 0,
                       content         |-> Undefined,
                       \* the locals of handleMediaWait
                       timeoutMs       |-> 0,
                       skipped         |-> FALSE,
                       elapsed         |-> 0,
                       \* the readline interface, the timers, the promises
                       rlClosed        |-> FALSE,
                       interval        |-> FALSE,   \* the interval is set
                       timeoutPending  |-> FALSE,   \* the timeout is set
                       settled         |-> FALSE,   \* Promise.race has settled
                       \* what has happened so far
                       ticks           |-> 0,
                       lineDelivered   |-> FALSE,
                       lineIgnored     |-> FALSE,
                       timeoutFired    |-> FALSE,
                       lineFirst       |-> FALSE ]  \* a line came before the timeout fired

\* handleMediaWait up to its await: lines 85-132
startMediaWait(w, timeoutMs) ==
    [w EXCEPT !.phase = "waiting",
              !.timeoutMs = timeoutMs,
              !.skipped = FALSE,
              !.elapsed = 0,
              !.interval = TRUE,
              !.timeoutPending = TRUE]

onLine_notSkipped(w) == [w EXCEPT !.rlClosed = TRUE]

\* the listener of 'line': lines 106-110; resolve() settles the race
\* unless it has settled
onLine(w) == [w EXCEPT !.skipped = TRUE, !.rlClosed = TRUE]

\* the callback of the interval: lines 114-126
onTick(w, elapsed) ==
    IF elapsed >= durationSec(w.timeoutMs)
    THEN [w EXCEPT !.elapsed = elapsed, !.interval = FALSE, !.rlClosed = TRUE]
    ELSE [w EXCEPT !.elapsed = elapsed]

\* handleMediaWait after its await, lines 134-153: it goes on when the
\* race settles, which a promise does once
resume(w) ==
    IF w.settled
    THEN w
    ELSE [w EXCEPT !.settled = TRUE,
                   !.interval = FALSE,
                   !.rlClosed = TRUE,
                   !.phase = "returned",
                   !.returns = @ + 1,
                   !.content = mediaWaitContent(w.timeoutMs, w.skipped, w.elapsed)]

OnlyWait ==
    UNCHANGED <<trackerVars, callVars, runVars, histVars, turnVars,
                compress, toolCall, proc, clients, history>>

\* executeTool up to its first await: lines 163-177
CallWaitTool ==
    /\ mediaWait.phase = "called"
    /\ mediaWait' =
           IF isMediaWait(browser_wait_for, mediaWait.params)
           THEN startMediaWait(mediaWait, mediaWait.params.timeout[1])
           ELSE [mediaWait EXCEPT !.phase = "backend", !.backendCalls = @ + 1]
    /\ OnlyWait

\* mcpClient.callTool resolves and executeTool returns the minimal
\* message: lines 175-212
WaitToolReturns ==
    /\ mediaWait.phase = "backend"
    /\ mediaWait' = [mediaWait EXCEPT !.phase = "returned",
                                      !.returns = @ + 1,
                                      !.content = acknowledgment(browser_wait_for)]
    /\ OnlyWait

\* the user's line reaches the open readline interface; a chunk of input
\* with several lines has the listener called for each
LineEvent ==
    /\ mediaWait.phase \in {"waiting", "returned"}
    /\ mediaWait.timeoutMs > 0
    /\ ~mediaWait.rlClosed
    /\ \E twoLines \in BOOLEAN :
         \E w \in {IF twoLines THEN onLine(onLine(mediaWait)) ELSE onLine(mediaWait)} :
             mediaWait' = [resume(w) EXCEPT !.lineDelivered = TRUE,
                                            !.lineFirst = ~mediaWait.timeoutFired]
    /\ OnlyWait

\* the user presses Enter after the interface was closed: no listener is
\* called
LineIgnored ==
    /\ mediaWait.phase \in {"waiting", "returned"}
    /\ mediaWait.timeoutMs > 0
    /\ mediaWait.rlClosed
    /\ ~mediaWait.lineIgnored
    /\ mediaWait' = [mediaWait EXCEPT !.lineIgnored = TRUE]
    /\ OnlyWait

\* the interval fires for the n-th time, n seconds after the start and
\* not after the timeout is due; Date.now() has then passed n seconds, or,
\* the timer being a little early, not quite
ProgressTick ==
    /\ mediaWait.phase \in {"waiting", "returned"}
    /\ mediaWait.interval
    /\ (mediaWait.ticks + 1) * TickMs <= mediaWait.timeoutMs
    /\ \E elapsed \in {mediaWait.ticks, mediaWait.ticks + 1} :
         mediaWait' = [onTick(mediaWait, elapsed) EXCEPT !.ticks = @ + 1]
    /\ OnlyWait

\* the timeout fires, once no firing of the interval is due before it
TimeoutFires ==
    /\ mediaWait.phase \in {"waiting", "returned"}
    /\ mediaWait.timeoutPending
    /\ \/ ~mediaWait.interval
       \/ (mediaWait.ticks + 1) * TickMs >= mediaWait.timeoutMs
    /\ \E w \in {[mediaWait EXCEPT !.timeoutPending = FALSE, !.timeoutFired = TRUE]} :
         mediaWait' = resume(w)
    /\ OnlyWait

NextWait ==
    \/ CallWaitTool
    \/ WaitToolReturns
    \/ LineEvent
    \/ LineIgnored
    \/ ProgressTick
    \/ TimeoutFires

SpecWait == InitWait /\ [][NextWait]_vars

(***************************************************************************)
(* SpecHistory: a ConversationHistory, to which messages are added and     *)
(* whose recent messages are asked for.                                    *)
(***************************************************************************)
\* the most messages a history holds
MaxMessages == 3

Roles == {"user", "assistant", "system"}

\* the messages that are added: a role, a content, a step number
SampleMessages == [ role : Roles, content : {<<"a">>}, stepNumber : {Some(1)} ]

InitHistory ==
    /\ LET sm == StateManager([maxSteps |-> Undef, maxConsecutiveFailures |-> Undef])
       IN  /\ state = sm.state
           /\ maxConsecutiveFailures = sm.maxConsecutiveFailures
    /\ CallsAtRest
    /\ RunAtRest
    /\ compress = Idle /\ toolCall = Idle /\ proc = Idle
    /\ clients = Idle /\ mediaWait = Idle
    /\ history = [ phase    |-> "live",
                   messages |-> <<>>,
                   asked    |-> Undef,      \* the count of the last getRecentMessages
                   before   |-> <<>>,       \* this.messages when it was called
                   returned |-> <<>> ]      \* what it returned

\* Array.prototype.slice(start) with an integer start: a negative start
\* counts from the end, and -0 is 0
sliceFrom(arr, start) ==
    LET len == Len(arr)
        k   == IF start < 0
               THEN (IF len + start > 0 THEN len + start ELSE 0)
               ELSE (IF start < len THEN start ELSE len)
    IN  SubSeq(arr, k + 1, len)

\* getRecentMessages(count): this.messages.slice(-count)
getRecentMessages(messages, count) == sliceFrom(messages, 0 - count)

\* addUserMessage, addAssistantMessage, addSystemMessage: messages.push
addMessage(messages, role, content, stepNumber) ==
    Append(messages, [role |-> role, content |-> content, stepNumber |-> stepNumber])

OnlyHistory ==
    UNCHANGED <<trackerVars, callVars, runVars, histVars, turnVars,
                compress, toolCall, proc, clients, mediaWait>>

AddMessage ==
    /\ history.phase = "live"
    /\ Len(history.messages) < MaxMessages
    /\ \E m \in SampleMessages :
         history' = [history EXCEPT
                        !.messages = addMessage(@, m.role, m.content, m.stepNumber)]
    /\ OnlyHistory

GetRecentMessages ==
    /\ history.phase = "live"
    /\ \E count \in 0..(MaxMessages + 1) :
         history' = [history EXCEPT
                        !.asked = Some(count),
                        !.before = history.messages,
                        !.returned = getRecentMessages(history.messages, count)]
    /\ OnlyHistory

\* clear()
ClearHistory ==
    /\ history.phase = "live"
    /\ history.messages # <<>>
    /\ history' = [history EXCEPT !.messages = <<>>]
    /\ OnlyHistory

NextHistory ==
    \/ AddMessage
    \/ GetRecentMessages
    \/ ClearHistory

SpecHistory == InitHistory /\ [][NextHistory]_vars

(***************************************************************************)
(* Properties of the agent loop (Spec, FairSpec, FairSpecUser)             *)
(***************************************************************************)
LoopLeft == pc \in {"ended", "snapshot", "waitEnter", "returned"}

\* no finished turn raised or carried a verdict signal
OnlyContinued == ~sawRaise /\ last \in {"none", "continue"}

\* every finished turn raised, and there was one
OnlyRaised == ~sawCont /\ last = "raise"

\* C1: with maxSteps >= 1 passed to run(), when no turn's response has a
\* completion or failure signal and no turn raises, the loop runs exactly
\* maxSteps iterations and the result has stepsTaken = maxSteps,
\* exitReason = max_steps and success = false.
C1_StepBudgetExhausted ==
    (pc = "returned" /\ options.maxSteps # Undef /\ OnlyContinued)
        => /\ iters = options.maxSteps[1]
           /\ result.stepsTaken = options.maxSteps[1]
           /\ result.exitReason = "max_steps"
           /\ result.success = FALSE

C1_Witness ==
    /\ pc = "returned" /\ options.maxSteps = Some(3) /\ OnlyContinued
    /\ iters = 3 /\ result.stepsTaken = 3 /\ result.exitReason = "max_steps"

NoTurnAfterCompletion ==
    last \in {"complete", "both"} => iters' = iters

\* C2: with maxSteps passed, when turns 1..k-1 end without a verdict and
\* turn k's response has a completion signal, no turn after k is started
\* and the result has stepsTaken = k, success = true, exitReason = success.
C2_CompletionEndsRun ==
    /\ [](  (pc = "returned" /\ options.maxSteps # Undef /\ ~sawRaise
                /\ last \in {"complete", "both"})
            => /\ iters \in 1..options.maxSteps[1]
               /\ result.stepsTaken = iters
               /\ result.success = TRUE
               /\ result.exitReason = "success" )
    /\ [][NoTurnAfterCompletion]_vars

C2_Witness ==
    /\ pc = "returned" /\ options.maxSteps = Some(4) /\ ~sawRaise /\ sawCont
    /\ last = "complete" /\ iters = 2 /\ result.stepsTaken = 2
    /\ result.success

\* C3: with maxFailures = t >= 1 and maxSteps >= t passed, when turns 1..t
\* all raise, the run ends after exactly t iterations with stepsTaken = t,
\* exitReason = max_failures and success = false.
C3_FailureThresholdEndsRun ==
    (pc = "returned" /\ options.maxSteps # Undef /\ options.maxFailures # Undef
        /\ options.maxSteps[1] >= options.maxFailures[1] /\ OnlyRaised)
        => /\ iters = options.maxFailures[1]
           /\ result.stepsTaken = options.maxFailures[1]
           /\ result.exitReason = "max_failures"
           /\ result.success = FALSE

\* C4: at every exit of the loop the fall-through branch of getExitReason
\* is unreachable (not done implies threshold breached, step budget
\* exhausted or shouldStop), so exitReason = success iff success.
C4_FallThroughUnreachable ==
    /\ (LoopLeft /\ ~state.isDone)
          => \/ state.consecutiveFailures >= maxConsecutiveFailures
             \/ state.currentStep >= state.maxSteps
             \/ state.shouldStop
    /\ pc = "returned" => (result.exitReason = "success" <=> result.success)

\* C5: after a turn failure the loop goes on while the consecutive
\* failures are below options.maxFailures (default 3) and currentStep is
\* below maxSteps; failures stop the run only at that threshold.
C5_StopsOnlyAtConfiguredThreshold ==
    (pc = "ended" /\ last = "raise")
        => \/ state.consecutiveFailures >=
                  Coalesce(options.maxFailures, DefaultMaxFailures)
           \/ state.currentStep >= state.maxSteps

ExitReasons == {"success", "max_steps", "max_failures", "user_interrupt", "error"}

StructuredResult ==
    /\ result.kind = "result"
    /\ result.success \in BOOLEAN
    /\ result.stepsTaken \in Nat
    /\ result.exitReason \in ExitReasons

RunInProgress == pc \notin {"idle", "returned", "rejected"}

\* C6 (as claimed): given that every provider stream ends or raises,
\* every call of run() eventually returns a structured TaskResult.
C6_RunReturns ==
    RunInProgress ~> (pc = "returned" /\ StructuredResult)

\* C6 (amended): the loop cannot iterate forever and run() then returns a
\* structured TaskResult, except for a playback task whose loop ended with
\* exit reason success on a media page: there run() waits until the user
\* presses Enter.
C6_RunReturnsOrAwaitsUser ==
    /\ RunInProgress ~> (pc = "returned" \/ pc = "waitEnter")
    /\ [](iters <= state.maxSteps)
    /\ [](pc = "waitEnter" =>
            /\ isMediaTask
            /\ getExitReason(state, maxConsecutiveFailures) = "success"
            /\ ENABLED UserPressesEnter)
    /\ [](pc = "returned" => StructuredResult)

C6_Witness ==
    /\ pc = "returned" /\ StructuredResult
    /\ iters = DefaultMaxSteps /\ result.exitReason = "max_steps"

\* a step in which an exception raised inside an iteration is handled
RaiseStep ==
    /\ pc \in RaisePoints
    /\ pc' \in {"while", "ended", "rejected"}
    /\ last' = "raise"

RaiseIsOneFailure ==
    RaiseStep =>
        /\ state'.consecutiveFailures = state.consecutiveFailures + 1
        /\ state'.currentStep = state.currentStep
        /\ state'.isDone = state.isDone
        /\ pc' \in {"while", "ended"}

FailureBelowThresholdKeepsGoing ==
    (lastOp' = "recordFailure" /\ ~marked /\ maxStreak' < maxConsecutiveFailures)
        => shouldContinue(state') = shouldContinue(state)

SuccessResetsCount ==
    lastOp' = "recordSuccess" => state'.consecutiveFailures = 0

\* C8: for every threshold t >= 1, t recordFailure calls in a row with no
\* recordSuccess between them set shouldStop and (on a tracker that was
\* not marked complete) make the exit reason max_failures; recordSuccess
\* resets the count to 0, so t-1 failures, a success and t-1 more failures
\* leave shouldStop false and do not change shouldContinue().
C8_FailureThreshold ==
    /\ [](streak >= maxConsecutiveFailures
            => /\ state.shouldStop
               /\ ~state.isDone
                    => getExitReason(state, maxConsecutiveFailures) = "max_failures")
    /\ []((~marked /\ maxStreak < maxConsecutiveFailures)
            => /\ ~state.shouldStop
               /\ shouldContinue(state) = (state.currentStep < state.maxSteps))
    /\ [][FailureBelowThresholdKeepsGoing]_vars
    /\ [][SuccessResetsCount]_vars

C8_Witness ==
    /\ maxConsecutiveFailures >= 3
    /\ nSucc = 1 /\ nFail = 2 * (maxConsecutiveFailures - 1)
    /\ streak = maxConsecutiveFailures - 1
    /\ maxStreak = maxConsecutiveFailures - 1
    /\ lastOp = "recordFailure"
    /\ ~state.shouldStop /\ shouldContinue(state)

\* C9: in every reachable tracker state, whatever calls were made,
\* isDone implies shouldStop.
C9_DoneImpliesStop ==
    state.isDone => state.shouldStop

C9_Witness ==
    state.isDone /\ state.shouldStop /\ lastOp = "recordSuccess" /\ nCalls >= 3

StopAndStepKept ==
    lastOp' # "reset"
        => /\ state.shouldStop => state'.shouldStop
           /\ state'.currentStep >= state.currentStep

\* C10: shouldStop is monotonic (no operation of the loop, recordSuccess
\* included, sets it back to false) and currentStep never decreases.
C10_Monotonic ==
    [][StopAndStepKept]_vars

C10_Witness ==
    /\ state.shouldStop /\ lastOp = "recordSuccess"
    /\ state.currentStep > 0 /\ ~marked

\* the state of the tracker's state machine {running, done, stopped}
Phase(s) ==
    IF s.isDone THEN "done"
    ELSE IF s.shouldStop \/ s.currentStep >= s.maxSteps THEN "stopped"
    ELSE "running"

TerminalKept ==
    (lastOp' # "reset" /\ Phase(state) # "running")
        => Phase(state') = Phase(state)

\* C11 (as claimed): done and stopped are terminal: once the tracker is
\* in one of them, none of nextStep, recordSuccess, recordFailure,
\* markComplete and markFailed moves it to another state of
\* {running, done, stopped}; a stopped tracker never becomes done.
C11_TerminalStates ==
    [][TerminalKept]_vars

TerminalOrCompleted ==
    lastOp' # "reset"
        => /\ Phase(state) = "done" => Phase(state') = "done"
           /\ Phase(state) = "stopped"
                => Phase(state') = IF lastOp' = "markComplete"
                                   THEN "done" ELSE "stopped"

\* C11 (amended): done is terminal and no operation moves a done or
\* stopped tracker back to running; a stopped tracker stays stopped under
\* nextStep, recordSuccess, recordFailure and markFailed, and markComplete
\* moves it to done.
C11_NoReturnToRunning ==
    [][TerminalOrCompleted]_vars

C11_Witness ==
    /\ Phase(state) = "done" /\ lastOp = "markComplete"
    /\ state.currentStep >= state.maxSteps
    /\ nCalls = state.maxSteps + 1 /\ nFail = 0 /\ nSucc = 0

\* C12: for every tracker state, shouldContinue() is false if and only if
\* shouldStop or isDone or currentStep >= maxSteps.
C12_ShouldContinue ==
    ~shouldContinue(state)
        <=> (state.shouldStop \/ state.isDone
                \/ state.currentStep >= state.maxSteps)

C12_Witness ==
    /\ state.shouldStop /\ ~state.isDone
    /\ state.currentStep < state.maxSteps
    /\ ~shouldContinue(state)

\* C13: for every tracker state the exit reason follows the priority
\* order: isDone gives success; else consecutiveFailures >= threshold
\* gives max_failures; else currentStep >= maxSteps gives max_steps; else
\* shouldStop gives error.
C13_ExitReasonPriority ==
    LET reason == getExitReason(state, maxConsecutiveFailures)
        breached == state.consecutiveFailures >= maxConsecutiveFailures
        exhausted == state.currentStep >= state.maxSteps
    IN  /\ state.isDone => reason = "success"
        /\ (~state.isDone /\ breached) => reason = "max_failures"
        /\ (~state.isDone /\ ~breached /\ exhausted) => reason = "max_steps"
        /\ (~state.isDone /\ ~breached /\ ~exhausted /\ state.shouldStop)
              => reason = "error"

C13_Witness ==
    /\ ~state.isDone /\ state.shouldStop
    /\ state.consecutiveFailures >= maxConsecutiveFailures
    /\ state.currentStep >= state.maxSteps
    /\ getExitReason(state, maxConsecutiveFailures) = "max_failures"

(***************************************************************************)
(* Properties of the agent loop, continued (Spec)                          *)
(***************************************************************************)
StepInRange == state.currentStep >= 0 /\ state.currentStep <= state.maxSteps

LoopStart == pc = "while" /\ iters = 0

\* C15: every call of run() starts its loop from a fresh progress state
\* (currentStep = 0, consecutiveFailures = 0, isDone = false,
\* shouldStop = false), also a run() without maxSteps and a second run()
\* on the same agent after an earlier run has ended.
C15_RunStartsFresh ==
    LoopStart
        => /\ state.currentStep = 0
           /\ state.consecutiveFailures = 0
           /\ state.isDone = FALSE
           /\ state.shouldStop = FALSE

(***************************************************************************)
(* Properties of a turn (SpecTurn)                                         *)
(***************************************************************************)
BeginsOnlyWithNoStreamOpen ==
    iters' = iters + 1 => openStreams = 0

\* C16: iterations of a run never overlap: at most one provider stream is
\* open at any time, and the advance and the prompt construction of the
\* next iteration begin only after the stream of the one before has ended
\* or raised.
C16_IterationsSequential ==
    /\ [](openStreams \in {0, 1})
    /\ [](pc \in {"while", "build", "open"} => openStreams = 0)
    /\ [][BeginsOnlyWithNoStreamOpen]_vars

C16_Witness ==
    /\ iters = 2 /\ pc = "consume" /\ openStreams = 1 /\ consumed >= 1
    /\ last = "continue"

\* the text fragments of the chunks s, concatenated in the order of s
RECURSIVE TextOf(_)
TextOf(s) ==
    IF Len(s) = 0 THEN <<>>
    ELSE (IF Head(s).content # Undef THEN Head(s).content[1] ELSE <<>>)
             \o TextOf(Tail(s))

\* the chunks taken from the stream so far
Taken == SubSeq(stream, 1, consumed)

\* C17: for every stream that ends normally the turn's response is the
\* concatenation of all text fragments in the order the provider emitted
\* them, none dropped, duplicated or reordered, also when a chunk carries
\* both a text fragment and a tool event.
C17_TextInOrder ==
    /\ pc = "consume" => accumulatedResponse = TextOf(Taken)
    /\ pc = "evaluate" => (consumed = Len(stream) /\ llmResponse = TextOf(stream))

C17_Witness ==
    /\ pc = "evaluate" /\ stream = S_Mixed /\ llmResponse = R_Failed

IsToolStart(chunk) ==
    chunk.toolExecution # Undef /\ chunk.toolExecution[1].type = "tool:start"

\* the tool whose start the chunks s report first, second, ... : the
\* position of the first tool:start event naming it
FirstStart(s, tool) ==
    CHOOSE i \in 1..Len(s) :
        /\ IsToolStart(s[i]) /\ s[i].toolExecution[1].tool = tool
        /\ \A j \in 1..(i - 1) :
               ~(IsToolStart(s[j]) /\ s[j].toolExecution[1].tool = tool)

\* C18: for every stream, toolsUsed holds each tool name of a tool:start
\* event exactly once, in the order of first appearance, and no name that
\* no tool:start event carried (tool:end events add nothing).
C18_ToolsOnceInOrder ==
    /\ \A i, j \in 1..Len(toolsUsed) : i # j => toolsUsed[i] # toolsUsed[j]
    /\ {toolsUsed[i] : i \in 1..Len(toolsUsed)}
          = {Taken[i].toolExecution[1].tool :
                 i \in {k \in 1..Len(Taken) : IsToolStart(Taken[k])}}
    /\ \A i, j \in 1..Len(toolsUsed) :
          i < j => FirstStart(Taken, toolsUsed[i]) < FirstStart(Taken, toolsUsed[j])

C18_Witness ==
    /\ pc = "evaluate" /\ stream = S_Tools
    /\ toolsUsed = <<"browser_navigate", "browser_snapshot">>

IsToolError(chunk) ==
    /\ chunk.toolExecution # Undef
    /\ chunk.toolExecution[1].type = "tool:end"
    /\ chunk.toolExecution[1].error # Undef

HadToolError == \E i \in 1..consumed : IsToolError(stream[i])

\* the chunks s with every tool:end event taken out
WithoutToolEnds(s) ==
    [i \in 1..Len(s) |->
        IF s[i].toolExecution # Undef /\ s[i].toolExecution[1].type = "tool:end"
        THEN [s[i] EXCEPT !.toolExecution = Undef]
        ELSE s[i]]

ChunkKeepsTracker ==
    consumed' = consumed + 1 => (state' = state /\ pc' = "consume")

\* the response of a turn whose stream had a tool error is evaluated
EvaluatedAfterToolError ==
    /\ pc = "evaluate" /\ pc' # "evaluate" /\ last' # "raise"
    /\ HadToolError

ToolErrorTurnAsAnyOther ==
    EvaluatedAfterToolError =>
        LET verdict == Signals(TextOf(WithoutToolEnds(stream)))
        IN  /\ state'.consecutiveFailures <= state.consecutiveFailures
            /\ verdict = "continue"
                 => /\ state'.consecutiveFailures = 0
                    /\ state'.shouldStop = state.shouldStop
                    /\ state'.isDone = state.isDone
                    /\ pc' = "while"
            /\ verdict \in {"complete", "both"}
                 => (state'.isDone /\ pc' = "ended")
            /\ verdict = "failed"
                 => (state'.shouldStop /\ ~state'.isDone /\ pc' = "ended")

\* C19: a tool:end event with an error is never escalated: when the
\* stream ends normally the iteration is treated as one without tool
\* errors (the verdict comes from the text, consecutiveFailures is reset to
\* 0 when there is none), and no tool error increments consecutiveFailures.
C19_ToolErrorNotEscalated ==
    /\ [](pc = "evaluate" => llmResponse = TextOf(WithoutToolEnds(stream)))
    /\ [][ChunkKeepsTracker]_vars
    /\ [][ToolErrorTurnAsAnyOther]_vars

C19_Witness ==
    /\ pc = "while" /\ sawRaise /\ last = "continue"
    /\ stream = S_ToolError /\ consumed = Len(S_ToolError)
    /\ state.consecutiveFailures = 0 /\ ~state.shouldStop

\* the provider's stream raises before it ends
StreamRaises ==
    /\ pc = "consume"
    /\ pc' \in {"while", "ended", "rejected"}
    /\ last' = "raise"

StreamRaiseIsOneFailure ==
    StreamRaises =>
        /\ state'.consecutiveFailures = state.consecutiveFailures + 1
        /\ state'.isDone = state.isDone
        /\ state'.shouldStop
              => (state.shouldStop
                    \/ state'.consecutiveFailures >= maxConsecutiveFailures)
        /\ state'.currentStep = state.currentStep
        /\ llmResponse' = <<>>
        /\ pc' \in {"while", "ended"}

\* C20: when a stream raises before it ends the turn is a turn-level
\* failure and the text accumulated so far is discarded: also when that
\* text has a completion or failure signal, markComplete and markFailed
\* are not called and the iteration records one consecutive failure only.
C20_PartialTextDiscarded ==
    /\ [](pc # "evaluate" => llmResponse = <<>>)
    /\ [][StreamRaiseIsOneFailure]_vars

C20_Witness ==
    /\ pc = "while" /\ last = "raise"
    /\ stream = S_Split /\ consumed = 3
    /\ Signals(accumulatedResponse) = "complete"
    /\ ~state.isDone /\ ~state.shouldStop
    /\ state.consecutiveFailures = 1

(***************************************************************************)
(* Properties of the compressor (SpecTrim, SpecTrimTwice)                  *)
(***************************************************************************)
\* the calls of trimYAMLSnapshot that the call of trimSnapshot just made
TrimCalls ==
    IF compress.phase = "trimmed"
    THEN { compress.first.calls[k] : k \in DOMAIN compress.first.calls }
    ELSE {}

\* the numbers of the lines that pushed an entry
Emitted(call) == { call.emitted[k] : k \in DOMAIN call.emitted }

\* line i of the call's input is an element line
IsElementLine(call, i) == call.about[i].element # Undef

ElementOf(call, i) == call.about[i].element[1]

\* C21: whatever the snapshot, no line whose element lacks a reference id
\* and no line whose element is marked hidden has an entry in the output.
C21_NoEntryWithoutRefOrHidden ==
    \A call \in TrimCalls :
        \A i \in DOMAIN call.lines :
            IsElementLine(call, i)
                /\ (\/ ElementOf(call, i).ref = <<>>
                    \/ ~ElementOf(call, i).visible)
            => i \notin Emitted(call)

\* a snapshot with a hidden button, a heading without a reference id and
\* a button that got its entry
C21_Witness ==
    /\ compress.phase = "trimmed"
    /\ \E call \in TrimCalls :
         /\ \E i \in DOMAIN call.lines : call.lines[i] = L_Hidden
         /\ \E i \in DOMAIN call.lines : call.lines[i] = L_Heading
         /\ \E i \in Emitted(call) : call.lines[i] = L_Button

\* the keep decision as the specification words it
KeepRule(element) ==
    /\ element.visible
    /\ \/ element.role \in INTERACTIVE_ROLES
       \/ element.url # <<>>
       \/ Len(element.name) > 2
    /\ element.role \notin SKIP_ROLES

\* C22: for every parsed element the keep decision is: visible, and an
\* interactive role or a target location or a name longer than 2 characters,
\* and a role outside the skip list; an entry is pushed only for a kept
\* element.
C22_KeepDecision ==
    \A call \in TrimCalls :
        \A i \in DOMAIN call.lines :
            /\ IsElementLine(call, i) =>
                   isInteractive(ElementOf(call, i))
                       = KeepRule(ElementOf(call, i))
            /\ i \in Emitted(call) =>
                   /\ IsElementLine(call, i)
                   /\ KeepRule(ElementOf(call, i))

\* a snapshot of a generic container with a target (dropped), an image
\* with a target (kept) and an image with a two-character name (dropped)
C22_Witness ==
    /\ compress.phase = "trimmed"
    /\ \E call \in TrimCalls :
         /\ \E i \in DOMAIN call.lines :
                call.lines[i] = L_Generic /\ i \notin Emitted(call)
         /\ \E i \in DOMAIN call.lines :
                call.lines[i] = L_Target /\ i \in Emitted(call)
         /\ \E i \in DOMAIN call.lines :
                call.lines[i] = L_Image /\ i \notin Emitted(call)

\* line i opens a skip navigation section: a line of the body with a skip
\* navigation keyword
IsNoiseHeader(call, i) == call.about[i].noise

\* line j lies in the section that line h opens: line j and every line of
\* the body between h and j is indented deeper than h
Beneath(call, h, j) ==
    /\ h < j
    /\ IsNoiseHeader(call, h)
    /\ call.about[j].body
    /\ \A k \in (h + 1)..j :
           call.about[k].body => call.about[k].indent > call.about[h].indent

\* C23: after a noise section header at indentation d, every following line
\* indented deeper than d is suppressed until the first line with
\* indentation <= d, also when a line inside the section has a noise keyword
\* itself.
C23_NoiseSectionSuppressed ==
    \A call \in TrimCalls :
        \A h, j \in DOMAIN call.lines :
            Beneath(call, h, j) => j \notin Emitted(call)

\* the same, for sections in which no line has a noise keyword
C23_PlainSectionsSuppressed ==
    \A call \in TrimCalls :
        \A h, j \in DOMAIN call.lines :
            /\ Beneath(call, h, j)
            /\ \A k \in (h + 1)..j : ~IsNoiseHeader(call, k)
            => j \notin Emitted(call)

\* line i is one the agent can act on: a visible element with a reference
\* id and an interactive role
IsActionable(call, i) ==
    /\ IsElementLine(call, i)
    /\ ElementOf(call, i).visible
    /\ ElementOf(call, i).ref # <<>>
    /\ ElementOf(call, i).role \in INTERACTIVE_ROLES

\* C24 as claimed: every visible element line with a reference id and an
\* interactive role has an entry in the output, unless it lies at deeper
\* indentation beneath a noise section header.
C24_ActionablePreserved ==
    \A call \in TrimCalls :
        \A i \in DOMAIN call.lines :
            /\ IsActionable(call, i)
            /\ ~\E h \in DOMAIN call.lines : Beneath(call, h, i)
            => i \in Emitted(call)

\* C24 amended: every visible element line with a reference id and an
\* interactive role has an entry in the output, unless it has a noise
\* keyword itself (it is then a section header and is skipped with its
\* section) or lies at deeper indentation beneath a noise section header.
C24_ActionablePreservedUnlessNoise ==
    \A call \in TrimCalls :
        \A i \in DOMAIN call.lines :
            /\ IsActionable(call, i)
            /\ ~IsNoiseHeader(call, i)
            /\ ~\E h \in DOMAIN call.lines : Beneath(call, h, i)
            => i \in Emitted(call)

\* a snapshot in which a link with a noise keyword was skipped as a section
\* header, and the link and the button after it, neither deeper than it,
\* got their entries
C24_Witness ==
    /\ compress.phase = "trimmed"
    /\ \E call \in TrimCalls :
         /\ Len(call.lines) = 3
         /\ call.lines[1] = L_NoiseLink /\ IsActionable(call, 1)
         /\ 1 \notin Emitted(call)
         /\ call.lines[2] = L_Link /\ 2 \in Emitted(call)
         /\ call.lines[3] = L_Button /\ 3 \in Emitted(call)

\* no line of the content parses as an element: the content is not an
\* array, or none of its text items has an element line
NothingParses(response) ==
    response.is = "array" =>
        \A k \in DOMAIN response.items :
            response.items[k].type = "text" =>
                LET lines == split(response.items[k].text, <<"\n">>)
                IN  \A i \in DOMAIN lines :
                        parseYAMLLine(trim(lines[i])) = Undef

\* C25: the compressor is fail-open: it never throws, and for empty input
\* and for input in which no line parses as an element it returns the
\* input unchanged.
C25_FailOpen ==
    compress.phase \in {"trimmed", "retrimmed"} =>
        /\ ~compress.first.threw
        /\ NothingParses(compress.response) =>
               compress.first.value = compress.response

\* the part of it that is about input without any text: undefined content,
\* content that is not an array, and arrays without a text item that is
\* not empty come back unchanged
C25_NoTextUnchanged ==
    /\ compress.phase \in {"trimmed", "retrimmed"}
    /\ ~compress.first.threw
    /\ compress.response.is = "array" =>
           \A k \in DOMAIN compress.response.items :
               /\ compress.response.items[k].type = "text"
               => compress.response.items[k].text = <<>>
    => compress.first.value = compress.response

\* the entries of an output text: its lines that start with a bracket
RECURSIVE SelectEntries(_)
SelectEntries(lines) ==
    IF lines = <<>> THEN <<>>
    ELSE (IF startsWith(Head(lines), <<"[">>) THEN <<Head(lines)>> ELSE <<>>)
             \o SelectEntries(Tail(lines))

EntriesOf(text) == SelectEntries(split(text, <<"\n">>))

\* the output of the k-th call of trimYAMLSnapshot of each of the two calls
\* of trimSnapshot
FirstText(k) == compress.first.calls[k].text

SecondText(k) == compress.second.calls[k].text

\* C26: the compressor run on its own output gives the same header and the
\* same entries again, and a count line that shows the same count.
C26_Idempotent ==
    compress.phase = "retrimmed" =>
        /\ Len(compress.second.calls) = Len(compress.first.calls)
        /\ \A k \in DOMAIN compress.first.calls :
               /\ compress.second.calls[k].header = compress.first.calls[k].header
               /\ EntriesOf(SecondText(k)) = EntriesOf(FirstText(k))
               /\ SecondText(k) = FirstText(k)

\* what the second run keeps: the header; it has no entries
C26_SecondRunKeepsHeaderOnly ==
    compress.phase = "retrimmed" =>
        /\ Len(compress.second.calls) = Len(compress.first.calls)
        /\ \A k \in DOMAIN compress.first.calls :
               /\ compress.second.calls[k].header = compress.first.calls[k].header
               /\ EntriesOf(SecondText(k)) = <<>>

\* the layout of the output of one call of trimYAMLSnapshot
LaidOut(call) ==
    LET n == Len(call.emitted)
        Entry(k) == formatElement(ElementOf(call, call.emitted[k]))[1]
    IN  /\ \A k \in 1..(n - 1) : call.emitted[k] < call.emitted[k + 1]
        /\ call.text =
               join((IF call.header.url # <<>>
                     THEN << <<"U", "R", "L", ":", " ">> \o call.header.url >>
                     ELSE <<>>)
                    \o (IF call.header.title # <<>>
                        THEN << <<"T", "i", "t", "l", "e", ":", " ">>
                                    \o call.header.title >>
                        ELSE <<>>)
                    \o << <<>>, Banner, <<>> >>
                    \o [k \in 1..n |-> Entry(k)]
                    \o << <<>>,
                          <<"T", "o", "t", "a", "l", " ", "i", "n", "t", "e", "r",
                            "a", "c", "t", "i", "v", "e", " ", "e", "l", "e", "m",
                            "e", "n", "t", "s", ":", " ">> \o toDecimal(n) >>,
                    <<"\n">>)

\* C27: the output is the extracted header (URL, Title when present), the
\* banner, the kept entries in the order of their input lines, then a count
\* line whose number is the number of entries.
C27_OutputLayout == \A call \in TrimCalls : LaidOut(call)

\* a snapshot with a URL line and two elements that got entries
C27_Witness ==
    /\ compress.phase = "trimmed"
    /\ \E call \in TrimCalls :
         /\ call.header.url # <<>>
         /\ Len(call.emitted) = 2
         /\ call.lines[call.emitted[1]] = L_Button
         /\ call.lines[call.emitted[2]] = L_Target

(***************************************************************************)
(* Properties of executeTool (SpecTool)                                    *)
(***************************************************************************)
IsSnapshotTool == toolCall.toolName = <<"b", "r", "o", "w", "s", "e", "r", "_", "s", "n", "a", "p", "s", "h", "o", "t">>

\* the call is a wait for media playback, which never reaches the backend
IsMediaWaitCall ==
    /\ toolCall.toolName = <<"b", "r", "o", "w", "s", "e", "r", "_", "w", "a", "i", "t", "_", "f", "o", "r">>
    /\ toolCall.params.timeout = Some(2000)
    /\ toolCall.params.text \in {Undef, Some(<<>>)}

\* the compressor passes the content through as it is: content that is not
\* an array, and arrays whose items are not text items with text
PassedThrough(content) ==
    content.is = "array" =>
        \A k \in DOMAIN content.items :
            \/ content.items[k].type # "text"
            \/ content.items[k].text = <<>>

\* the content is one text item with text
IsOneText(content) ==
    /\ content.is = "array"
    /\ Len(content.items) = 1
    /\ content.items[1].type = "text"
    /\ content.items[1].text # <<>>

\* the content is one text item whose text is the compressor's listing
IsListing(content) ==
    /\ IsOneText(content)
    /\ includes(content.items[1].text, Banner)
    /\ includes(content.items[1].text, <<"T", "o", "t", "a", "l", " ", "i", "n", "t", "e", "r", "a", "c", "t", "i", "v", "e", " ", "e", "l", "e", "m", "e", "n", "t", "s", ":", " ">>)

IsAcknowledgment(content) ==
    /\ IsOneText(content)
    /\ content.items[1].text
           = <<"U+2705", " ">> \o toolCall.toolName \o <<" ", "e", "x", "e", "c", "u", "t", "e", "d", " ", "s", "u", "c", "c", "e", "s", "s", "f", "u", "l", "l", "y">>

\* C28 as claimed: the content handed to the model is the compressor's
\* output when the tool is the snapshot tool and the fixed acknowledgment of
\* the tool's name for every other tool; the backend's raw content is never
\* handed on.
C28_CompressedOrAcknowledged ==
    toolCall.phase = "handed" =>
        /\ IsSnapshotTool => toolCall.handed = trimSnapshot(toolCall.raw).value
        /\ ~IsSnapshotTool => IsAcknowledgment(toolCall.handed)
        /\ toolCall.backendCalls > 0 => toolCall.handed # toolCall.raw

\* C28 amended: the content handed to the model is the compressor's output
\* when the tool is the snapshot tool (the listing for a text snapshot, the
\* backend's content as it is where the compressor passes it through), a
\* playback message made without the backend when the tool is
\* browser_wait_for with a timeout and no text, and the fixed acknowledgment
\* of the tool's name in every other case; raw content is handed on only
\* where the compressor passes it through.
C28_CompressedWaitedOrAcknowledged ==
    toolCall.phase = "handed" =>
        /\ IsSnapshotTool =>
               /\ toolCall.backendCalls = 1
               /\ IsOneText(toolCall.raw) =>
                      /\ IsListing(toolCall.handed)
                      /\ toolCall.handed.items[1].text
                             = trimYAMLSnapshot(toolCall.raw.items[1].text)
               /\ PassedThrough(toolCall.raw) => toolCall.handed = toolCall.raw
        /\ IsMediaWaitCall =>
               /\ toolCall.backendCalls = 0
               /\ IsOneText(toolCall.handed)
               /\ includes(toolCall.handed.items[1].text, <<" ", "M", "e", "d", "i", "a", " ", "p", "l", "a", "y", "b", "a", "c", "k", " ">>)
                      \/ includes(toolCall.handed.items[1].text,
                                  <<" ", "m", "e", "d", "i", "a", " ", "p", "l", "a", "y", "b", "a", "c", "k", " ">>)
        /\ ~IsSnapshotTool /\ ~IsMediaWaitCall =>
               /\ toolCall.backendCalls = 1
               /\ IsAcknowledgment(toolCall.handed)
        /\ toolCall.backendCalls > 0 /\ toolCall.handed = toolCall.raw =>
               IsSnapshotTool /\ PassedThrough(toolCall.raw)

\* a click whose backend content was a text snapshot and whose
\* acknowledgment was handed on
C28_Witness ==
    /\ toolCall.phase = "handed"
    /\ toolCall.toolName = <<"b", "r", "o", "w", "s", "e", "r", "_", "c", "l", "i", "c", "k">>
    /\ IsOneText(toolCall.raw)
    /\ IsAcknowledgment(toolCall.handed)

(***************************************************************************)
(* Properties of the verdict parser (Spec)                                 *)
(***************************************************************************)
\* the response has the phrase, letters compared without regard to case
HasPhrase(response, phrase) ==
    \E i \in 1..(Len(response) - Len(phrase) + 1) :
        \A k \in 1..Len(phrase) :
            LET c == response[i + k - 1]
            IN  (IF c \in DOMAIN LowerOf THEN LowerOf[c] ELSE c) = phrase[k]

SaysComplete(response) ==
    \/ HasPhrase(response, <<"t", "a", "s", "k", " ", "c", "o", "m", "p", "l", "e", "t", "e">>)
    \/ HasPhrase(response, <<"s", "u", "c", "c", "e", "s", "s", "f", "u", "l", "l", "y", " ", "c", "o", "m", "p", "l", "e", "t", "e", "d">>)
    \/ HasPhrase(response, <<"t", "a", "s", "k", " ", "f", "i", "n", "i", "s", "h", "e", "d">>)

SaysFailed(response) ==
    \/ HasPhrase(response, <<"t", "a", "s", "k", " ", "f", "a", "i", "l", "e", "d">>)
    \/ HasPhrase(response, <<"c", "a", "n", "n", "o", "t", " ", "c", "o", "m", "p", "l", "e", "t", "e">>)
    \/ HasPhrase(response, <<"u", "n", "a", "b", "l", "e", " ", "t", "o", " ", "p", "r", "o", "c", "e", "e", "d">>)

\* the two flags of the response being evaluated are as stated
FlagsAsStated ==
    pc = "evaluate" =>
        /\ parseResponse(llmResponse).isComplete = SaysComplete(llmResponse)
        /\ parseResponse(llmResponse).isFailed = SaysFailed(llmResponse)

\* the evaluation of a response with neither phrase leaves the loop running
NeitherContinues ==
    /\ pc = "evaluate" /\ pc' # "evaluate" /\ last' # "raise"
    /\ ~SaysComplete(llmResponse) /\ ~SaysFailed(llmResponse)
    => /\ pc' = "while"
       /\ last' = "continue"
       /\ state'.isDone = state.isDone
       /\ state'.shouldStop = state.shouldStop
       /\ state'.consecutiveFailures = 0

\* C29: parseResponse sets its two flags independently by case-insensitive
\* substring match: isComplete iff the response has 'task complete',
\* 'successfully completed' or 'task finished', isFailed iff it has
\* 'task failed', 'cannot complete' or 'unable to proceed'; with neither
\* the flags are both false and the loop continues.
C29_ParseVerdict ==
    /\ [](FlagsAsStated)
    /\ [][NeitherContinues]_vars

\* a response with a failure phrase in lower case and a completion phrase
\* in upper case is being evaluated: both flags are set
C29_Witness ==
    /\ pc = "evaluate"
    /\ llmResponse = R_Both
    /\ parseResponse(llmResponse) = [isComplete |-> TRUE, isFailed |-> TRUE]

(***************************************************************************)
(* Properties of the programs' exit code (SpecCli)                         *)
(***************************************************************************)
Exited == proc.phase = "exited"

RunSucceeded == result # NoResult /\ result.success

\* C30: a program that was given a task exits with code 0 when the result
\* of the run has success = TRUE, and with code 1 in every other case: the
\* result has success = FALSE, or initialize or run raised.  This fails:
\* the command line program ends with code 0 after a run whose result has
\* success = FALSE.
C30_ExitCode ==
    (Exited /\ proc.task) =>
        proc.exitCode = IF RunSucceeded THEN Some(0) ELSE Some(1)

\* the demo program's exit code does follow the result
C30_DemoExitCode ==
    (Exited /\ proc.program = "demo") =>
        proc.exitCode = IF RunSucceeded /\ proc.cleanedUp THEN Some(0) ELSE Some(1)

\* the command line program ends with code 1 only through a raise
C30_CliExitCode ==
    (Exited /\ proc.program = "cli") =>
        proc.exitCode = IF proc.task /\ (result = NoResult \/ ~proc.cleanedUp)
                        THEN Some(1) ELSE Some(0)

\* the command line program has ended with code 0 after a failed run
C30_CliFailedRunExitsZero ==
    /\ Exited /\ proc.program = "cli" /\ proc.cleanedUp
    /\ result # NoResult /\ ~result.success
    /\ proc.exitCode = Some(0)

(***************************************************************************)
(* Properties of the check after the loop (Spec)                           *)
(***************************************************************************)
\* the check of the current location is awaited, or the prompt it led to
LocationChecked == pc \in {"snapshot", "waitEnter"}

CheckOnlyAfterMediaSuccess ==
    LocationChecked =>
        /\ isMediaTask
        /\ getExitReason(state, maxConsecutiveFailures) = "success"

\* after the loop was left the tracker is not written, and a result that
\* is returned carries the tracker's values
ResultAsAtLoopExit ==
    LoopLeft =>
        /\ state' = state
        /\ maxConsecutiveFailures' = maxConsecutiveFailures
        /\ (pc # "returned" /\ pc' = "returned") =>
              /\ result'.success = state.isDone
              /\ result'.stepsTaken = state.currentStep
              /\ result'.exitReason = getExitReason(state, maxConsecutiveFailures)

\* C31: the location check after the loop is made only for a media task
\* whose loop ended with exit reason "success"; with or without the check,
\* the result returned has the success, stepsTaken and exitReason that the
\* tracker had when the loop was left.
C31_PostCheckIsFrameOnly ==
    /\ [](CheckOnlyAfterMediaSuccess)
    /\ [][ResultAsAtLoopExit]_vars

\* a media task has returned after the check and the prompt
C31_Witness ==
    /\ pc = "returned" /\ isMediaTask
    /\ result.exitReason = "success" /\ result.success
    /\ result.stepsTaken = iters /\ iters >= 2

(***************************************************************************)
(* Properties of the last-step prompt (Spec)                               *)
(***************************************************************************)
\* no iteration is started after one whose prompt had isLastStep and was
\* answered by the model
NoIterationAfterLastStepPrompt ==
    (lastStepPrompt /\ last # "raise") => iters' = iters

\* C32: the last-step prompt ("This is your LAST iteration ... Do not
\* request more iterations") is given only on an iteration after which the
\* loop starts no further iteration, whatever the model answers.  This
\* fails: iteration maxSteps - 1 has the last-step prompt and iteration
\* maxSteps follows it when the answer carries no verdict.
C32_LastStepPromptEndsLoop == [][NoIterationAfterLastStepPrompt]_vars

\* what holds: the last-step prompt is given on the last two iterations
\* the step budget allows, and on no other
C32_LastStepPromptOnLastTwo ==
    (pc \in {"open", "consume", "evaluate"}) =>
        (lastStepPrompt <=> state.currentStep \in {state.maxSteps - 1, state.maxSteps})

(***************************************************************************)
(* Properties of a response with both verdicts (Spec)                      *)
(***************************************************************************)
\* the response being evaluated has a completion and a failure signal
BothSignals == pc = "evaluate" /\ Signals(llmResponse) = "both"

\* the evaluation of such a response is "complete, not failed", and
\* unless an exception is raised first, which the catch block counts as a
\* failed turn, the step that follows is the completion branch:
\* markComplete and break
TieGoesToCompletion ==
    BothSignals =>
        /\ evaluateResponse(llmResponse).isComplete
        /\ ~evaluateResponse(llmResponse).isFailed
        /\ last' # "raise" => /\ state' = markComplete(state)
                              /\ pc' = "ended"
                              /\ last' = "both"

\* a run whose last turn had both signals has not rejected, and the result
\* it returns is a success
TieReturnsSuccess ==
    last = "both" =>
        /\ pc # "rejected"
        /\ state.isDone
        /\ pc = "returned" => /\ result.success
                              /\ result.exitReason = "success"

\* C33: a response that matches a completion signal and a failure signal
\* does not crash the run and counts as completion: the tracker is marked
\* complete, not failed, and the result has success = TRUE and exitReason
\* "success".
C33_BothSignalsComplete ==
    /\ [](TieReturnsSuccess)
    /\ [][TieGoesToCompletion]_vars

\* a run has returned after a turn with both signals
C33_Witness ==
    /\ pc = "returned" /\ last = "both"
    /\ result.success /\ result.exitReason = "success"
    /\ iters >= 2

(***************************************************************************)
(* Properties of the failure bound of a run (Spec, SpecRuns)               *)
(***************************************************************************)
Min(a, b) == IF a <= b THEN a ELSE b

\* min(3, maxFailures) of the run in progress or just returned
FailureBound == Min(DefaultMaxConsecutiveFailures, options.maxFailures[1])

RunWithMaxFailures == pc # "idle" /\ options.maxFailures # Undef

\* no iteration is started with FailureBound consecutive failures
NoIterationAtFailureBound ==
    (RunWithMaxFailures /\ pc = "while"
        /\ state.consecutiveFailures >= FailureBound)
        => pc' # "build"

\* C34: in every run with options.maxFailures >= 1 the loop starts no new
\* iteration once min(3, maxFailures) consecutive turn failures have
\* occurred, and consecutiveFailures never exceeds min(3, maxFailures).
\* This fails for a run on an agent that has run before.
C34_FailuresBounded ==
    /\ [](RunWithMaxFailures => maxConsecutiveFailures = DefaultMaxConsecutiveFailures)
    /\ [](RunWithMaxFailures => state.consecutiveFailures <= FailureBound)
    /\ [][NoIterationAtFailureBound]_vars

\* what holds: the bound is kept by the first run of an agent
C34_FirstRunFailuresBounded ==
    RunWithMaxFailures => state.consecutiveFailures <= FailureBound

(***************************************************************************)
(* Properties of a declared failure (Spec)                                 *)
(***************************************************************************)
\* the response being evaluated has a failure signal and no completion
\* signal
DeclaredFailure == pc = "evaluate" /\ Signals(llmResponse) = "failed"

\* unless an exception is raised first, the step that follows is the
\* failure branch: markFailed and break
FailureEndsLoop ==
    (DeclaredFailure /\ last' # "raise") =>
        /\ state' = markFailed(state)
        /\ pc' = "ended"
        /\ last' = "failed"

\* after a declared failure no iteration follows and no location check is
\* made; the result is not a success and its exit reason tells whether the
\* failure came on the last iteration the step budget allowed
FailureResult ==
    last = "failed" =>
        /\ pc \in {"ended", "returned"}
        /\ state.currentStep = iters
        /\ pc = "returned" =>
              /\ result.success = FALSE
              /\ result.stepsTaken = iters
              /\ result.exitReason = IF iters < state.maxSteps THEN "error"
                                     ELSE "max_steps"

\* C35: when the model declares failure (a failure signal and no
\* completion signal) on iteration k, the run ends at once with success =
\* FALSE, and exitReason is "error" if k < maxSteps and "max_steps" if
\* k = maxSteps.
C35_DeclaredFailureEndsRun ==
    /\ [](FailureResult)
    /\ [](iters <= state.maxSteps)
    /\ [][FailureEndsLoop]_vars

\* a failure declared before the last iteration, after an earlier turn
C35_Witness ==
    /\ pc = "returned" /\ last = "failed"
    /\ iters = 2 /\ state.maxSteps = 3
    /\ result.exitReason = "error" /\ ~result.success

\* a failure declared on the last iteration
C35_WitnessLastIteration ==
    /\ pc = "returned" /\ last = "failed"
    /\ iters = 3 /\ state.maxSteps = 3
    /\ result.exitReason = "max_steps" /\ ~result.success

(***************************************************************************)
(* Properties of the step counter of a run (Spec, SpecRuns)                *)
(***************************************************************************)
RunWithMaxSteps == pc # "idle" /\ options.maxSteps # Undef

\* the streams opened never outnumber the iterations started, which the
\* tracker counts and which never exceed the run's maxSteps
StepCounterBounds ==
    RunWithMaxSteps =>
        /\ state.maxSteps = options.maxSteps[1]
        /\ streamsOpened <= state.currentStep
        /\ state.currentStep = iters
        /\ state.currentStep <= state.maxSteps
        /\ pc = "returned" => result.stepsTaken = iters

\* currentStep moves only where an iteration starts, and by one
StepAdvancedOncePerIteration ==
    (RunWithMaxSteps /\ pc' # "idle" /\ options' = options /\ iters' >= iters) =>
        /\ iters' = iters + 1 => state'.currentStep = state.currentStep + 1
        /\ iters' = iters => state'.currentStep = state.currentStep

\* C36: in every run started with a maxSteps option, at every point the
\* number of provider streams opened <= currentStep <= maxSteps,
\* currentStep is advanced exactly once per iteration, and the result's
\* stepsTaken equals the number of iterations started in that run.
C36_StepCounter ==
    /\ [](StepCounterBounds)
    /\ [][StepAdvancedOncePerIteration]_vars

\* a run with maxSteps has returned after three iterations, one of
\* which raised before its stream was opened
C36_Witness ==
    /\ RunWithMaxSteps /\ pc = "returned"
    /\ iters = 3 /\ state.maxSteps = 3 /\ streamsOpened = 2
    /\ result.stepsTaken = 3

(***************************************************************************)
(* Properties of the clients' lifecycle (SpecClient)                       *)
(***************************************************************************)
\* the step is a call of the method op
ClientCalled(op) ==
    /\ clients'.ops = clients.ops + 1
    /\ clients'.last.op = op

NoBackendCall ==
    /\ clients'.connections = clients.connections
    /\ clients'.listings = clients.listings
    /\ clients'.toolCalls = clients.toolCalls

NoProviderCall ==
    /\ clients'.providerCalls = clients.providerCalls
    /\ clients'.registrations = clients.registrations
    /\ clients'.registered = clients.registered

\* executeTool, listTools and stream, called when no initialize() has
\* succeeded since the construction or since the last cleanup() that
\* returned, raise the not-initialized error and call nothing
OutsideWindowRaises ==
    /\ ((ClientCalled("executeTool") \/ ClientCalled("listTools")) /\ ~clients.connected) =>
           /\ clients'.last.outcome = "notInitialized"
           /\ NoBackendCall /\ NoProviderCall
    /\ (ClientCalled("stream") /\ ~clients.nlReady) =>
           /\ clients'.last.outcome = "notInitialized"
           /\ NoBackendCall /\ NoProviderCall

\* initialize() on an initialized client returns at once
InitializeOnlyOnce ==
    /\ (ClientCalled("pw.initialize") /\ clients.connected) =>
           /\ clients'.last.outcome = "returned"
           /\ NoBackendCall
    /\ (ClientCalled("nl.initialize") /\ clients.nlReady) =>
           /\ clients'.last.outcome = "returned"
           /\ NoBackendCall /\ NoProviderCall

\* C37: the tool backend and the provider are never contacted outside the
\* initialized window: executeTool, listTools and stream raise a "not
\* initialized" error without calling the backend or the provider whenever
\* they are called before a successful initialize() or after cleanup(), and
\* initialize() on an already-initialized client opens no second connection
\* and registers no tools again.
C37_InitializedWindow ==
    /\ [][OutsideWindowRaises]_vars
    /\ [][InitializeOnlyOnce]_vars

\* executeTool is refused after a cleanup that followed a tool call made
\* inside the window: the client object is still set, the flag is not
C37_Witness ==
    /\ clients.phase = "live"
    /\ clients.last = [op |-> "executeTool", outcome |-> "notInitialized"]
    /\ clients.mcpClient /\ ~clients.connected
    /\ clients.connections = 1 /\ clients.toolCalls = 1

\* initialize() was called twice on a NeuroLinkClient and the second call
\* found it initialized
C37_WitnessSecondInitialize ==
    /\ clients.phase = "live"
    /\ clients.last = [op |-> "nl.initialize", outcome |-> "returned"]
    /\ clients.ops = 2 /\ clients.registrations = 1 /\ clients.connections = 1

(***************************************************************************)
(* Properties of the provider's tool registry (SpecClient)                 *)
(***************************************************************************)
\* the tools that may be exposed: on the allow-list and listed by the
\* backend
Exposable == essentialToolNames \cap clients.listed

\* the registry holds nothing before initialize() has registered, and
\* exactly the exposable tools after; the model has invoked only tools of
\* the registry
RegistryIsAllowList ==
    clients.phase = "live" =>
        /\ clients.registered \subseteq Exposable
        /\ clients.registrations > 0 => clients.registered = Exposable
        /\ clients.registrations = 0 => clients.registered = {}
        /\ clients.invoked \subseteq clients.registered

\* C39: only tools whose name is in the fixed essential allow-list and
\* that the backend actually lists are exposed to the provider; every
\* other backend tool is never registered and so can never be invoked by
\* the model.
C39_OnlyAllowListedTools == [](RegistryIsAllowList)

\* the backend lists tools off the allow-list next to tools on it; the
\* latter are registered and one of them has been invoked and has reached
\* the backend
C39_Witness ==
    /\ clients.phase = "live"
    /\ clients.listed \ essentialToolNames # {}
    /\ Cardinality(clients.registered) = 2
    /\ clients.invoked # {}
    /\ clients.toolCalls = 1

(***************************************************************************)
(* Properties of the media wait (SpecWait)                                 *)
(***************************************************************************)
\* the call is a wait with a timeout and no text
MediaWaitCall ==
    /\ mediaWait.phase # "idle"
    /\ Truthy(mediaWait.params.timeout)
    /\ ~(mediaWait.params.text # Undef /\ mediaWait.params.text[1] # <<>>)

WaitReturned == mediaWait.phase = "returned"

SkippedText(w) == mediaWaitContent(w.timeoutMs, TRUE, w.elapsed)

WaitedText(w) == mediaWaitContent(w.timeoutMs, FALSE, w.elapsed)

\* a media wait calls no backend; it has returned if and only if a line
\* was delivered or the timeout has fired, and then once, with the text
\* that tells which of the two came first
MediaWaitOutcome ==
    MediaWaitCall =>
        /\ mediaWait.backendCalls = 0
        /\ mediaWait.phase # "backend"
        /\ mediaWait.returns = IF WaitReturned THEN 1 ELSE 0
        /\ mediaWait.phase # "called" =>
               (WaitReturned <=> (mediaWait.lineDelivered \/ mediaWait.timeoutFired))
        /\ mediaWait.lineDelivered => mediaWait.lineFirst
        /\ WaitReturned =>
               /\ mediaWait.content \in {SkippedText(mediaWait), WaitedText(mediaWait)}
               /\ mediaWait.content = SkippedText(mediaWait) <=> mediaWait.lineFirst

\* what the call returned is not changed by the events that come later
ReturnedOnce ==
    (MediaWaitCall /\ WaitReturned) =>
        /\ mediaWait'.returns = mediaWait.returns
        /\ mediaWait'.content = mediaWait.content
        /\ mediaWait'.lineFirst = mediaWait.lineFirst

\* C38: a wait tool call with a timeout and no text (media wait) makes no
\* backend call and returns exactly once, after whichever occurs first of
\* the user's Enter line or the timeout expiry; the returned text reports
\* "skipped by user" if and only if the line event was delivered before
\* the timeout fired, under every interleaving of the line event, the
\* once-per-second progress timer and the timeout.
C38_MediaWait ==
    /\ [](MediaWaitOutcome)
    /\ [][ReturnedOnce]_vars

\* the user skipped after one tick, and the timeout fired after the return
C38_Witness ==
    /\ MediaWaitCall /\ WaitReturned
    /\ mediaWait.lineFirst /\ mediaWait.timeoutFired
    /\ mediaWait.ticks = 1 /\ mediaWait.returns = 1
    /\ mediaWait.content = SkippedText(mediaWait)

\* the last tick closed the input, Enter came too late, the timeout fired
C38_WitnessLateEnter ==
    /\ MediaWaitCall /\ WaitReturned
    /\ mediaWait.lineIgnored /\ ~mediaWait.lineDelivered
    /\ mediaWait.ticks = 2
    /\ mediaWait.content = WaitedText(mediaWait)

(***************************************************************************)
(* Properties of the recent messages (SpecHistory)                         *)
(***************************************************************************)
\* the last Min(n, Len(messages)) messages, in their order
LastMessages(messages, n) ==
    LET total == Len(messages)
        take  == IF n < total THEN n ELSE total
    IN  [i \in 1..take |-> messages[total - take + i]]

\* what the last call of getRecentMessages returned is what the claim says
RecentAsClaimed ==
    (history.phase = "live" /\ history.asked # Undef) =>
        history.returned = LastMessages(history.before, history.asked[1])

\* the call leaves this.messages as it was
RecentLeavesRecord ==
    (history.phase = "live" /\ history'.asked # history.asked) =>
        history'.messages = history.messages

\* C40: for every history and every n >= 0, getRecentMessages(n) returns
\* the last min(n, total) messages in their original order (for n = 0, no
\* messages), and leaves the stored record unchanged.
C40_RecentMessages ==
    /\ [](RecentAsClaimed)
    /\ [][RecentLeavesRecord]_vars

\* the claim without its case n = 0
C40_RecentMessagesPositiveCount ==
    /\ []((history.phase = "live" /\ history.asked # Undef /\ history.asked # Some(0))
            => history.returned = LastMessages(history.before, history.asked[1]))
    /\ [][RecentLeavesRecord]_vars

\* getRecentMessages(0) on a history of two messages returns both
C40_ZeroCountReturnsAll ==
    /\ history.phase = "live"
    /\ history.asked = Some(0)
    /\ Len(history.before) = 2
    /\ history.returned = history.before

====
